---- MODULE Spec2Model ----
(***************************************************************************)
(* Conversation routing engine of the quiz-me application                  *)
(* (src/24-July-2025/quiz-me/src/edges, src/state).                         *)
(*                                                                         *)
(* A Python str is a sequence of one-character strings, so that strip(),   *)
(* lower() and the `in` substring test are computed and not assumed.       *)
(* Python None in an Optional[str] field is the distinguished value None.  *)
(***************************************************************************)
EXTENDS Integers, Sequences, FiniteSets, TLC

VARIABLES state, last_op, pre_state, result, raised, routing_metrics,
          workflow

vars == <<state, last_op, pre_state, result, raised, routing_metrics,
          workflow>>

-----------------------------------------------------------------------------
(* Bounds *)

\* retry_count values range over 0..MaxRetry
MaxRetry == 5

\* routing decisions recorded by the global metrics instance are capped
MaxRoutes == 2

\* total_questions_answered values range over 0..MaxAnswered
MaxAnswered == 10

\* questions are advanced while current_question_index < MaxIndex
MaxIndex == 2

\* process_input is called at most MaxTurns times
MaxTurns == 3

\* the graph runs at most MaxSteps nodes for one input (recursion limit)
MaxSteps == 5

\* session_manager runs while the conversation log has fewer entries
MaxLog == 2

-----------------------------------------------------------------------------
(* Python values *)

None == <<"<None>">>

NoIntent == "<None>"

NoBool == "None"

\* no exception escaped the call
NoExc == None

Raised == "<raised>"

Truthy(x) == x # None /\ x # <<>>

Whitespace == {" "}

RECURSIVE LStrip(_)
LStrip(s) == IF s # <<>> /\ Head(s) \in Whitespace THEN LStrip(Tail(s)) ELSE s

RECURSIVE RStrip(_)
RStrip(s) ==
    IF s # <<>> /\ s[Len(s)] \in Whitespace
    THEN RStrip(SubSeq(s, 1, Len(s) - 1))
    ELSE s

Strip(s) == RStrip(LStrip(s))

UpperAlphabet == <<"A", "B", "C", "D", "E", "F", "G", "H", "I", "J", "K", "L", "M", "N", "O", "P", "Q", "R", "S", "T", "U", "V", "W", "X", "Y", "Z">>

LowerAlphabet == <<"a", "b", "c", "d", "e", "f", "g", "h", "i", "j", "k", "l", "m", "n", "o", "p", "q", "r", "s", "t", "u", "v", "w", "x", "y", "z">>

LowerChar(c) ==
    IF \E i \in 1..Len(UpperAlphabet) : UpperAlphabet[i] = c
    THEN LowerAlphabet[CHOOSE i \in 1..Len(UpperAlphabet) : UpperAlphabet[i] = c]
    ELSE c

Lower(s) == [i \in 1..Len(s) |-> LowerChar(s[i])]

RECURSIVE DropWord(_)
DropWord(s) ==
    IF s # <<>> /\ Head(s) \notin Whitespace THEN DropWord(Tail(s)) ELSE s

\* len(s.split())
RECURSIVE WordCount(_)
WordCount(s) ==
    LET t == LStrip(s)
    IN  IF t = <<>> THEN 0 ELSE 1 + WordCount(DropWord(t))

\* Python `k in s` for two strings
Contains(s, k) ==
    \E i \in 0..(Len(s) - Len(k)) : SubSeq(s, i + 1, i + Len(k)) = k

AnyKeyword(s, kws) == \E k \in kws : Contains(s, k)

-----------------------------------------------------------------------------
(* Session state: QuizState *)

Phases ==
    {"topic_selection", "topic_validation", "quiz_active",
     "question_answered", "quiz_complete"}

UnknownPhase == "unknown_phase"

Intents ==
    {"start_quiz", "answer_question", "new_quiz", "exit", "continue",
     "clarification"}

DefaultState ==
    [ user_input |-> <<>>,
      user_intent |-> NoIntent,
      current_phase |-> "topic_selection",
      topic |-> None,
      topic_validated |-> FALSE,
      quiz_type |-> "finite",
      max_questions |-> 10,
      current_question_index |-> 0,
      current_question |-> None,
      question_type |-> None,
      question_options |-> None,
      correct_answer |-> None,
      user_answers |-> <<>>,
      current_answer |-> None,
      answer_is_correct |-> NoBool,
      answer_feedback |-> None,
      total_score |-> 0,
      total_questions_answered |-> 0,
      correct_answers_count |-> 0,
      quiz_completion_percentage |-> 0,
      quiz_active |-> FALSE,
      quiz_completed |-> FALSE,
      session_id |-> "session-1",
      last_error |-> None,
      retry_count |-> 0,
      conversation_history |-> <<>>,
      quiz_metadata |-> <<>> ]

-----------------------------------------------------------------------------
(* Results of a routing call: the returned node, the state it leaves, and  *)
(* the exception that escaped it (NoExc when it returned normally)         *)

Return(t, s) == [ret |-> t, st |-> s, exc |-> NoExc]

Raise(e, s) == [ret |-> Raised, st |-> s, exc |-> e]

\* str(e) of the AttributeError raised by None.strip()
StripOnNone ==
    <<"'", "N", "o", "n", "e", "T", "y", "p", "e", "'", " ", "o",
      "b", "j", "e", "c", "t", " ", "h", "a", "s", " ", "n", "o",
      " ", "a", "t", "t", "r", "i", "b", "u", "t", "e", " ", "'",
      "s", "t", "r", "i", "p", "'">>

\* str(e) of the AttributeError raised by None.lower()
LowerOnNone ==
    <<"'", "N", "o", "n", "e", "T", "y", "p", "e", "'", " ", "o",
      "b", "j", "e", "c", "t", " ", "h", "a", "s", " ", "n", "o",
      " ", "a", "t", "t", "r", "i", "b", "u", "t", "e", " ", "'",
      "l", "o", "w", "e", "r", "'">>

-----------------------------------------------------------------------------
(* conversation_router.py: phase routers *)

\* mutant: a new_quiz request is taken for a start_quiz request
route_from_topic_selection_AnyQuizIntent(s) ==
    IF s.user_intent \in {"start_quiz", "new_quiz"}
    THEN Return("topic_validator", s)
    ELSE Return("clarification_handler", s)

route_from_topic_selection(s) ==
    IF s.user_intent = "start_quiz" THEN Return("topic_validator", s)
    ELSE IF s.user_intent = "clarification"
         THEN Return("clarification_handler", s)
    ELSE Return("clarification_handler", s)

\* mutant: the retry ceiling is compared with > instead of >=
route_from_topic_validation_OffByOne(s) ==
    IF s.topic_validated THEN Return("quiz_generator", s)
    ELSE IF s.retry_count > 3 THEN Return("end", s)
    ELSE Return("clarification_handler", s)

route_from_topic_validation(s) ==
    IF s.topic_validated THEN Return("quiz_generator", s)
    ELSE IF s.retry_count >= 3 THEN Return("end", s)
    ELSE Return("clarification_handler", s)

\* mutant: the override records the intent as clarification
route_from_quiz_active_OverrideClarification(s) ==
    IF s.user_intent = "answer_question" THEN Return("answer_validator", s)
    ELSE IF s.user_intent = "clarification"
         THEN Return("clarification_handler", s)
    ELSE IF ~Truthy(s.current_question)
         THEN Return("clarification_handler", s)
    ELSE IF s.user_input = None THEN Raise(StripOnNone, s)
    ELSE IF Strip(s.user_input) # <<>>
         THEN Return("answer_validator",
                     [s EXCEPT !.user_intent = "clarification"])
    ELSE Return("clarification_handler", s)

\* mutant: the user text is tested without strip()
route_from_quiz_active_NoStrip(s) ==
    IF s.user_intent = "answer_question" THEN Return("answer_validator", s)
    ELSE IF s.user_intent = "clarification"
         THEN Return("clarification_handler", s)
    ELSE IF ~Truthy(s.current_question)
         THEN Return("clarification_handler", s)
    ELSE IF s.user_input = None THEN Raise(StripOnNone, s)
    ELSE IF s.user_input # <<>>
         THEN Return("answer_validator",
                     [s EXCEPT !.user_intent = "answer_question"])
    ELSE Return("clarification_handler", s)

route_from_quiz_active(s) ==
    IF s.user_intent = "answer_question" THEN Return("answer_validator", s)
    ELSE IF s.user_intent = "clarification"
         THEN Return("clarification_handler", s)
    ELSE IF ~Truthy(s.current_question)
         THEN Return("clarification_handler", s)
    ELSE IF s.user_input = None THEN Raise(StripOnNone, s)
    ELSE IF Strip(s.user_input) # <<>>
         THEN Return("answer_validator",
                     [s EXCEPT !.user_intent = "answer_question"])
    ELSE Return("clarification_handler", s)

\* mutant: the default branch asks for clarification instead of scoring
route_from_question_answered_DefaultClarify(s) ==
    IF s.user_intent = "continue" \/ s.user_intent = "answer_question"
    THEN Return("score_generator", s)
    ELSE Return("clarification_handler", s)

route_from_question_answered(s) ==
    IF s.user_intent = "continue" \/ s.user_intent = "answer_question"
    THEN Return("score_generator", s)
    ELSE IF s.user_intent = "clarification"
         THEN Return("clarification_handler", s)
    ELSE Return("score_generator", s)

\* mutant: only new_quiz restarts, start_quiz ends the session
route_from_quiz_complete_NewQuizOnly(s) ==
    IF s.user_intent = "new_quiz"
    THEN Return("topic_validator", s)
    ELSE Return("end", s)

route_from_quiz_complete(s) ==
    IF s.user_intent = "new_quiz" \/ s.user_intent = "start_quiz"
    THEN Return("topic_validator", s)
    ELSE Return("end", s)

(* conversation_router.py: main router *)

\* mutant: an unknown phase asks for clarification
route_conversation_body_UnknownClarify(s) ==
    IF s.user_intent = "exit" THEN Return("end", s)
    ELSE IF s.user_intent = "new_quiz" THEN Return("topic_validator", s)
    ELSE IF s.current_phase = "topic_selection"
         THEN route_from_topic_selection(s)
    ELSE IF s.current_phase = "topic_validation"
         THEN route_from_topic_validation(s)
    ELSE IF s.current_phase = "quiz_active" THEN route_from_quiz_active(s)
    ELSE IF s.current_phase = "question_answered"
         THEN route_from_question_answered(s)
    ELSE IF s.current_phase = "quiz_complete"
         THEN route_from_quiz_complete(s)
    ELSE Return("clarification_handler", s)

\* mutant: the exit override is tested after the phase dispatch
route_conversation_body_ExitLast(s) ==
    IF s.user_intent = "new_quiz" THEN Return("topic_validator", s)
    ELSE IF s.current_phase = "topic_selection"
         THEN route_from_topic_selection(s)
    ELSE IF s.current_phase = "topic_validation"
         THEN route_from_topic_validation(s)
    ELSE IF s.current_phase = "quiz_active" THEN route_from_quiz_active(s)
    ELSE IF s.current_phase = "question_answered"
         THEN route_from_question_answered(s)
    ELSE IF s.current_phase = "quiz_complete"
         THEN route_from_quiz_complete(s)
    ELSE IF s.user_intent = "exit" THEN Return("end", s)
    ELSE Return("query_analyzer", s)

\* mutant: the new-quiz branch itself moves the session to topic selection
route_conversation_body_NewQuizSetsPhase(s) ==
    IF s.user_intent = "exit" THEN Return("end", s)
    ELSE IF s.user_intent = "new_quiz"
         THEN Return("topic_validator",
                     [s EXCEPT !.current_phase = "topic_selection"])
    ELSE IF s.current_phase = "topic_selection"
         THEN route_from_topic_selection(s)
    ELSE IF s.current_phase = "topic_validation"
         THEN route_from_topic_validation(s)
    ELSE IF s.current_phase = "quiz_active" THEN route_from_quiz_active(s)
    ELSE IF s.current_phase = "question_answered"
         THEN route_from_question_answered(s)
    ELSE IF s.current_phase = "quiz_complete"
         THEN route_from_quiz_complete(s)
    ELSE Return("query_analyzer", s)

route_conversation_body(s) ==
    IF s.user_intent = "exit" THEN Return("end", s)
    ELSE IF s.user_intent = "new_quiz" THEN Return("topic_validator", s)
    ELSE IF s.current_phase = "topic_selection"
         THEN route_from_topic_selection(s)
    ELSE IF s.current_phase = "topic_validation"
         THEN route_from_topic_validation(s)
    ELSE IF s.current_phase = "quiz_active" THEN route_from_quiz_active(s)
    ELSE IF s.current_phase = "question_answered"
         THEN route_from_question_answered(s)
    ELSE IF s.current_phase = "quiz_complete"
         THEN route_from_quiz_complete(s)
    ELSE Return("query_analyzer", s)

\* mutant: no try/except around the dispatch
route_conversation_NoCatch(s) == route_conversation_body(s)

\* try: ... except Exception: return "query_analyzer" (the error is logged)
route_conversation(s) ==
    LET r == route_conversation_body(s)
    IN  IF r.exc # NoExc THEN Return("query_analyzer", r.st) ELSE r

(* conversation_router.py: error recovery *)

UserInputKeywords ==
    {<<"i", "n", "p", "u", "t">>,
     <<"u", "n", "d", "e", "r", "s", "t", "a", "n", "d">>,
     <<"u", "n", "c", "l", "e", "a", "r">>}

LlmKeywords ==
    {<<"l", "l", "m">>,
     <<"a", "p", "i">>,
     <<"n", "e", "t", "w", "o", "r", "k">>,
     <<"t", "i", "m", "e", "o", "u", "t">>}

ValidationKeywords ==
    {<<"v", "a", "l", "i", "d", "a", "t", "i", "o", "n">>,
     <<"i", "n", "v", "a", "l", "i", "d">>,
     <<"f", "o", "r", "m", "a", "t">>}

\* mutant: the LLM and network keywords are tested first
classify_error_type_LlmFirst(error_message) ==
    IF ~Truthy(error_message) THEN "unknown"
    ELSE LET error_lower == Lower(error_message)
         IN  IF AnyKeyword(error_lower, LlmKeywords) THEN "llm_error"
             ELSE IF AnyKeyword(error_lower, ValidationKeywords)
                  THEN "validation_error"
             ELSE IF AnyKeyword(error_lower, UserInputKeywords)
                  THEN "user_input_error"
             ELSE "unknown"

\* mutant: a text without keyword is taken for a validation error
classify_error_type_DefaultValidation(error_message) ==
    IF ~Truthy(error_message) THEN "unknown"
    ELSE LET error_lower == Lower(error_message)
         IN  IF AnyKeyword(error_lower, UserInputKeywords)
             THEN "user_input_error"
             ELSE IF AnyKeyword(error_lower, LlmKeywords) THEN "llm_error"
             ELSE "validation_error"

classify_error_type(error_message) ==
    IF ~Truthy(error_message) THEN "unknown"
    ELSE LET error_lower == Lower(error_message)
         IN  IF AnyKeyword(error_lower, UserInputKeywords)
             THEN "user_input_error"
             ELSE IF AnyKeyword(error_lower, LlmKeywords) THEN "llm_error"
             ELSE IF AnyKeyword(error_lower, ValidationKeywords)
                  THEN "validation_error"
             ELSE "unknown"

get_retry_node_for_phase(phase) ==
    CASE phase = "topic_selection" -> "query_analyzer"
      [] phase = "topic_validation" -> "topic_validator"
      [] phase = "quiz_active" -> "quiz_generator"
      [] phase = "question_answered" -> "answer_validator"
      [] OTHER -> "query_analyzer"

\* mutant: an unclassified error asks for clarification
route_error_recovery_UnknownClarify(s) ==
    LET error_type == classify_error_type(s.last_error)
    IN  IF error_type = "user_input_error"
        THEN Return("clarification_handler", s)
        ELSE IF error_type = "llm_error"
             THEN IF s.retry_count < 3
                  THEN Return(get_retry_node_for_phase(s.current_phase), s)
                  ELSE Return("end", s)
        ELSE Return("clarification_handler", s)

route_error_recovery(s) ==
    LET error_type == classify_error_type(s.last_error)
    IN  IF error_type = "user_input_error"
        THEN Return("clarification_handler", s)
        ELSE IF error_type = "llm_error"
             THEN IF s.retry_count < 3
                  THEN Return(get_retry_node_for_phase(s.current_phase), s)
                  ELSE Return("end", s)
        ELSE IF error_type = "validation_error"
             THEN Return("clarification_handler", s)
        ELSE Return("end", s)

should_end_session(s) ==
    \/ s.user_intent = "exit"
    \/ s.retry_count >= 5
    \/ /\ s.current_phase = "quiz_complete"
       /\ s.user_intent \notin {"new_quiz", "start_quiz"}

-----------------------------------------------------------------------------
(* conversation_router.py: routing validation *)

valid_transitions ==
    [p \in Phases |->
        CASE p = "topic_selection" ->
                {"topic_validator", "clarification_handler", "end"}
          [] p = "topic_validation" ->
                {"quiz_generator", "clarification_handler", "end"}
          [] p = "quiz_active" ->
                {"answer_validator", "clarification_handler",
                 "quiz_generator", "end"}
          [] p = "question_answered" ->
                {"score_generator", "clarification_handler", "end"}
          [] p = "quiz_complete" -> {"topic_validator", "end"}]

valid_next_nodes(phase) ==
    IF phase \in DOMAIN valid_transitions THEN valid_transitions[phase] ELSE {}

node_requirements(s, next_node) ==
    CASE next_node = "topic_validator" -> Truthy(s.user_input)
      [] next_node = "quiz_generator" -> s.topic_validated /\ Truthy(s.topic)
      [] next_node = "answer_validator" ->
            Truthy(s.current_answer) /\ Truthy(s.current_question)
      [] next_node = "score_generator" -> s.answer_is_correct # NoBool
      [] OTHER -> TRUE

\* mutant: the node prerequisites are not checked
validate_routing_decision_TableOnly(s, next_node) ==
    ~(next_node \notin valid_next_nodes(s.current_phase)
      /\ next_node # "query_analyzer")

validate_routing_decision(s, next_node) ==
    IF next_node \notin valid_next_nodes(s.current_phase)
       /\ next_node # "query_analyzer"
    THEN FALSE
    ELSE node_requirements(s, next_node)

\* decorator validate_routing_result applied to f's result r
validate_routing_result(r) ==
    IF r.exc # NoExc THEN r
    ELSE IF ~validate_routing_decision(r.st, r.ret)
         THEN Return("query_analyzer", r.st)
    ELSE r

-----------------------------------------------------------------------------
(* conversation_router.py: RoutingMetrics, the module-level instance *)

Count(m, k) == IF k \in DOMAIN m THEN m[k] ELSE 0

\* mutant: a recorded route is marked seen, not counted
record_routing_MarksSeen(m, from_phase, to_node) ==
    LET route_key == <<from_phase, to_node>>
        row == IF from_phase \in DOMAIN m.phase_transitions
               THEN m.phase_transitions[from_phase]
               ELSE <<>>
    IN  [m EXCEPT
            !.routing_counts = (route_key :> 1) @@ @,
            !.phase_transitions =
                (from_phase :> ((to_node :> 1) @@ row)) @@ @]

record_routing(m, from_phase, to_node) ==
    LET route_key == <<from_phase, to_node>>
        row == IF from_phase \in DOMAIN m.phase_transitions
               THEN m.phase_transitions[from_phase]
               ELSE <<>>
    IN  [m EXCEPT
            !.routing_counts = (route_key :> (Count(@, route_key) + 1)) @@ @,
            !.phase_transitions =
                (from_phase :> ((to_node :> (Count(row, to_node) + 1)) @@ row))
                @@ @]

record_error_route(m, error_type) ==
    [m EXCEPT !.error_routes = (error_type :> (Count(@, error_type) + 1)) @@ @]

RECURSIVE SumCounts(_)
SumCounts(m) ==
    IF DOMAIN m = {} THEN 0
    ELSE LET k == CHOOSE x \in DOMAIN m : TRUE
         IN  m[k] + SumCounts([x \in DOMAIN m \ {k} |-> m[x]])

total_routes(m) == SumCounts(m.routing_counts)

\* @log_routing_decision @validate_routing_result route_conversation
main_route_conversation(s) == validate_routing_result(route_conversation(s))

-----------------------------------------------------------------------------
(* query_analyzer_router.py *)

CommandWords ==
    {<<"h", "e", "l", "p">>,
     <<"e", "x", "i", "t">>,
     <<"q", "u", "i", "t">>,
     <<"n", "e", "w">>,
     <<"s", "t", "a", "r", "t">>,
     <<"s", "t", "o", "p">>,
     <<"c", "h", "a", "n", "g", "e">>}

handle_new_quiz_request(s) ==
    IF s.quiz_active /\ s.total_questions_answered > 0
    THEN Return("topic_validator",
            [s EXCEPT !.quiz_metadata =
                ("interrupted_session" :>
                    [topic |-> s.topic,
                     questions_answered |-> s.total_questions_answered,
                     score |-> s.total_score,
                     interrupted_at |-> s.current_phase]) @@ @])
    ELSE Return("topic_validator", s)

handle_start_quiz_request(s) ==
    IF s.quiz_active /\ ~s.quiz_completed
    THEN Return("clarification_handler", s)
    ELSE Return("topic_validator", s)

handle_answer_submission(s) ==
    IF ~Truthy(s.current_question) THEN Return("clarification_handler", s)
    ELSE IF s.user_input = None THEN Raise(StripOnNone, s)
    ELSE IF Strip(s.user_input) = <<>>
         THEN Return("clarification_handler", s)
    ELSE Return("answer_validator", [s EXCEPT !.current_answer = s.user_input])

handle_continue_based_on_phase(s) ==
    CASE s.current_phase = "question_answered" -> Return("score_generator", s)
      [] s.current_phase = "quiz_active" -> Return("quiz_generator", s)
      [] s.current_phase = "quiz_complete" -> Return("topic_validator", s)
      [] s.current_phase = "topic_selection" -> Return("topic_validator", s)
      [] OTHER -> Return("clarification_handler", s)

handle_continue_request(s) == handle_continue_based_on_phase(s)

resolve_ambiguous_intent(s) ==
    IF s.user_input = None THEN Raise(LowerOnNone, s)
    ELSE
    LET user_input == Strip(Lower(s.user_input))
    IN  IF /\ s.current_phase = "quiz_active"
           /\ Truthy(s.current_question)
           /\ user_input # <<>>
        THEN IF AnyKeyword(user_input, CommandWords)
             THEN Return("query_analyzer", s)
             ELSE Return("answer_validator",
                    [s EXCEPT !.user_intent = "answer_question",
                              !.current_answer = s.user_input])
        ELSE IF /\ ~s.quiz_active
                /\ user_input # <<>>
                /\ WordCount(user_input) <= 5
                /\ ~AnyKeyword(user_input, {<<"?">>, <<"!">>})
             THEN Return("topic_validator",
                    [s EXCEPT !.user_intent = "start_quiz"])
        ELSE Return("clarification_handler", s)

route_after_query_analysis_body(s) ==
    IF s.user_intent = "exit" THEN Return("end", s)
    ELSE IF s.user_intent = "new_quiz" THEN handle_new_quiz_request(s)
    ELSE IF s.user_intent = "start_quiz" THEN handle_start_quiz_request(s)
    ELSE IF s.user_intent = "answer_question" THEN handle_answer_submission(s)
    ELSE IF s.user_intent = "continue" THEN handle_continue_request(s)
    ELSE IF s.user_intent = "clarification"
         THEN Return("clarification_handler", s)
    ELSE resolve_ambiguous_intent(s)

\* try: ... except Exception: return "clarification_handler"
route_after_query_analysis(s) ==
    LET r == route_after_query_analysis_body(s)
    IN  IF r.exc # NoExc THEN Return("clarification_handler", r.st) ELSE r

-----------------------------------------------------------------------------
(* quiz_state.py: QuizState methods.  An accuracy is the exact fraction     *)
(* <<numerator, denominator>> of the float the code computes; a threshold   *)
(* test accuracy >= n is numerator >= n * denominator.                      *)

calculate_accuracy(s) ==
    IF s.total_questions_answered = 0 THEN <<0, 1>>
    ELSE <<s.correct_answers_count * 100, s.total_questions_answered>>

increment_question(s) ==
    [s EXCEPT !.current_question_index = @ + 1,
              !.current_question = None,
              !.question_type = None,
              !.question_options = None,
              !.correct_answer = None,
              !.current_answer = None,
              !.answer_is_correct = NoBool,
              !.answer_feedback = None]

\* truthiness of quiz_metadata.get(key) for a key that holds a flag
MetaFlag(quiz_metadata, key) ==
    key \in DOMAIN quiz_metadata /\ quiz_metadata[key] = TRUE

\* datetime.isoformat() of the time of the call
Timestamp == "<timestamp>"

-----------------------------------------------------------------------------
(* score_generator_router.py.  max_questions is Optional[int]; None is the  *)
(* value 0 here: every reader tests its truthiness first (x and ..., x or   *)
(* 10), for which None and 0 behave alike.                                  *)

\* mutant: the completion leaves quiz_active as it was
handle_quiz_completion_KeepsActive(s) ==
    Return("quiz_completion_handler",
           [s EXCEPT !.current_phase = "quiz_complete"])

handle_quiz_completion(s) ==
    LET s1 == [s EXCEPT !.current_phase = "quiz_complete",
                        !.quiz_active = FALSE]
        accuracy == calculate_accuracy(s1)
        performance ==
            IF accuracy[1] >= 90 * accuracy[2] THEN "excellent"
            ELSE IF accuracy[1] >= 80 * accuracy[2] THEN "good"
            ELSE IF accuracy[1] >= 70 * accuracy[2] THEN "fair"
            ELSE IF accuracy[1] >= 60 * accuracy[2] THEN "needs_improvement"
            ELSE "poor"
        \* calculate_final_statistics
        md1 == ("final_accuracy" :> accuracy)
               @@ ("performance_category" :> performance)
               @@ ("total_points" :> s1.total_score)
               @@ ("questions_attempted" :> s1.total_questions_answered)
               @@ ("correct_answers" :> s1.correct_answers_count)
               @@ ("completion_timestamp" :> Timestamp)
               @@ s1.quiz_metadata
        \* determine_completion_type
        completion_type ==
            IF s1.total_questions_answered >=
                 (IF s1.max_questions # 0 THEN s1.max_questions ELSE 10)
            THEN "normal_completion"
            ELSE IF MetaFlag(md1, "ended_due_to_generation_failure")
                 THEN "technical_completion"
            ELSE IF MetaFlag(md1, "user_requested_end") THEN "user_ended"
            ELSE IF MetaFlag(md1, "max_retries_reached")
                 THEN "error_completion"
            ELSE "unknown_completion"
        \* get_final_statistics
        final_statistics ==
            [accuracy |-> accuracy,
             total_score |-> s1.total_score,
             questions_answered |-> s1.total_questions_answered,
             correct_count |-> s1.correct_answers_count,
             performance |-> performance,
             topic |-> s1.topic,
             completion_type |-> completion_type]
        md2 == ("completion_type" :> completion_type)
               @@ ("final_statistics" :> final_statistics)
               @@ md1
    IN  Return("quiz_completion_handler", [s1 EXCEPT !.quiz_metadata = md2])

continue_to_next_question(s) ==
    Return("quiz_generator",
           [increment_question(s) EXCEPT !.current_phase = "quiz_active"])

determine_continuation_flow(s) ==
    LET answered == s.total_questions_answered
        \* total >= max_questions * 0.8, in integers
        should_check_user_intent ==
            \/ s.quiz_type = "infinite"
            \/ s.max_questions # 0 /\ 5 * answered >= 4 * s.max_questions
        should_auto_continue ==
            /\ s.quiz_type = "finite"
            /\ s.max_questions # 0
            /\ answered < s.max_questions
            /\ ~MetaFlag(s.quiz_metadata, "user_pause_requested")
        should_pause_for_feedback ==
            /\ answered > 0
            /\ answered % 5 = 0
            /\ answered < (IF s.max_questions # 0 THEN s.max_questions
                           ELSE 10)
        accuracy == calculate_accuracy(s)
        check_user_continuation_intent ==
            Return("continuation_check_handler",
                   [s EXCEPT !.quiz_metadata =
                       ("continuation_check" :>
                           [questions_answered |-> answered,
                            current_score |-> s.total_score,
                            accuracy |-> accuracy]) @@ @])
        \* increment_question, phase quiz_active: as continue_to_next_question
        continue_quiz_automatically == continue_to_next_question(s)
        pause_for_feedback ==
            Return("feedback_handler",
                   [s EXCEPT !.quiz_metadata =
                       ("feedback_pause" :>
                           [milestone |-> answered,
                            performance_so_far |-> accuracy,
                            encouragement_needed |->
                                accuracy[1] < 60 * accuracy[2]]) @@ @])
    IN  IF should_check_user_intent THEN check_user_continuation_intent
        ELSE IF should_auto_continue THEN continue_quiz_automatically
        ELSE IF should_pause_for_feedback THEN pause_for_feedback
        ELSE continue_to_next_question(s)

\* No statement of the try block raises on a QuizState whose counters are
\* integers, so the except branch (handle_scoring_error) is never entered.
route_after_scoring(s) ==
    IF s.quiz_completed THEN handle_quiz_completion(s)
    ELSE determine_continuation_flow(s)

\* conversation_router.py: the two-way post-scoring router
route_after_score_generation(s) ==
    IF s.quiz_completed THEN Return("quiz_completion_handler", s)
    ELSE Return("quiz_generator", s)

-----------------------------------------------------------------------------
(* States the routers are called on.  The caller owns the session state and *)
(* the processing steps write its fields before each routing call; the     *)
(* fields a router reads range over every combination of the values below, *)
(* the fields it does not read keep the QuizState defaults.                *)

IntentValues == Intents \cup {NoIntent, "unknown"}

PhaseValues == Phases \cup {UnknownPhase}

\* user_input is declared str, but assignment is not validated, so None occurs
UserInputs ==
    {None, <<>>, <<" ">>, <<"4">>, <<" ", "4", " ">>,
     <<"N", "e", "w">>,
     <<"a", " ", "b", " ", "c", " ", "d", " ", "e", " ", "f">>,
     <<"4", "?">>}

Questions == {None, <<>>, <<"Q">>}

Topics == {None, <<>>, <<"P", "y", "t", "h", "o", "n">>}

Answers == {None, <<"4">>}

OptBools == {NoBool, "True", "False"}

ErrorMessages ==
    {None, <<>>,
     <<"U", "s", "e", "r", " ", "i", "n", "p", "u", "t", " ", "u", "n", "c", "l", "e", "a", "r">>,
     <<"L", "L", "M", " ", "A", "P", "I", " ", "t", "i", "m", "e", "o", "u", "t">>,
     <<"V", "a", "l", "i", "d", "a", "t", "i", "o", "n", " ", "f", "a", "i", "l", "e", "d">>,
     <<"U", "n", "k", "n", "o", "w", "n", " ", "e", "r", "r", "o", "r">>,
     <<"L", "L", "M", " ", "r", "e", "q", "u", "e", "s", "t", " ", "t", "i", "m", "e", "d", " ", "o", "u", "t">>,
     <<"N", "e", "t", "w", "o", "r", "k", " ", "t", "i", "m", "e", "o", "u", "t">>,
     <<"I", "n", "v", "a", "l", "i", "d", " ", "i", "n", "p", "u", "t", " ", "f", "o", "r", "m", "a", "t">>,
     <<"Q", "u", "e", "s", "t", "i", "o", "n", " ", "g", "e", "n", "e", "r", "a", "t", "i", "o", "n", " ", "f", "a", "i", "l", "e", "d">>,
     <<"A", "P", "I", " ", "r", "e", "t", "u", "r", "n", "e", "d", " ", "i", "n", "v", "a", "l", "i", "d", " ", "f", "o", "r", "m", "a", "t">>,
     <<"U", "n", "c", "l", "e", "a", "r", " ", "A", "P", "I", " ", "r", "e", "s", "p", "o", "n", "s", "e">>}

\* the fields read by route_conversation and the phase routers
InitConv ==
    { [DefaultState EXCEPT !.user_intent = i, !.current_phase = p,
                           !.topic_validated = tv, !.retry_count = rc,
                           !.current_question = q, !.user_input = ui] :
        i \in IntentValues, p \in PhaseValues, tv \in BOOLEAN,
        rc \in 0..MaxRetry, q \in Questions,
        ui \in {None, <<>>, <<" ">>, <<"4">>, <<" ", "4", " ">>} }

\* the fields read by route_after_query_analysis
InitQuery ==
    { [DefaultState EXCEPT !.user_intent = i, !.current_phase = p,
                           !.current_question = q, !.user_input = ui,
                           !.quiz_active = qa, !.quiz_completed = qc,
                           !.total_questions_answered = n,
                           !.topic = tp] :
        i \in IntentValues, p \in PhaseValues, q \in {None, <<"Q">>},
        ui \in UserInputs, qa \in BOOLEAN, qc \in BOOLEAN, n \in 0..1,
        tp \in {None, <<"P", "y", "t", "h", "o", "n">>} }

\* the fields read by route_error_recovery and should_end_session
InitError ==
    { [DefaultState EXCEPT !.last_error = e, !.retry_count = rc,
                           !.current_phase = p, !.user_intent = i] :
        e \in ErrorMessages, rc \in 0..MaxRetry, p \in PhaseValues,
        i \in IntentValues }

\* the fields read by main_route_conversation: the router and the validator
InitMain ==
    { [DefaultState EXCEPT !.user_intent = i, !.current_phase = p,
                           !.topic_validated = tv, !.topic = tp,
                           !.retry_count = rc, !.current_question = q,
                           !.user_input = ui, !.current_answer = a,
                           !.answer_is_correct = c] :
        i \in IntentValues, p \in PhaseValues, tv \in BOOLEAN,
        tp \in Topics, rc \in 0..MaxRetry, q \in {None, <<"Q">>},
        ui \in {None, <<>>, <<"4">>}, a \in Answers, c \in OptBools }

NoMetrics ==
    [routing_counts |-> <<>>, error_routes |-> <<>>,
     phase_transitions |-> <<>>]

\* the workflow graph between two calls of process_input
Idle == [at |-> "idle", routing |-> FALSE, steps |-> 0, turns |-> 0]

InitCall ==
    /\ last_op = "none"
    /\ pre_state = state
    /\ result = "none"
    /\ raised = NoExc
    /\ routing_metrics = NoMetrics
    /\ workflow = Idle

Init ==
    /\ state \in InitConv \cup InitQuery \cup InitError
    /\ InitCall

InitValidated ==
    /\ state \in InitMain
    /\ InitCall

PyBool(b) == IF b THEN "True" ELSE "False"

\* one call of a routing function on the session state
Call(name, r) ==
    /\ last_op' = name
    /\ pre_state' = state
    /\ state' = r.st
    /\ result' = r.ret
    /\ raised' = r.exc
    /\ UNCHANGED workflow

RouteConversation ==
    /\ Call("route_conversation", route_conversation(state))
    /\ UNCHANGED routing_metrics

RouteFromTopicSelection ==
    /\ Call("route_from_topic_selection", route_from_topic_selection(state))
    /\ UNCHANGED routing_metrics

RouteFromTopicValidation ==
    /\ Call("route_from_topic_validation", route_from_topic_validation(state))
    /\ UNCHANGED routing_metrics

RouteFromQuizActive ==
    /\ Call("route_from_quiz_active", route_from_quiz_active(state))
    /\ UNCHANGED routing_metrics

RouteFromQuestionAnswered ==
    /\ Call("route_from_question_answered",
            route_from_question_answered(state))
    /\ UNCHANGED routing_metrics

RouteFromQuizComplete ==
    /\ Call("route_from_quiz_complete", route_from_quiz_complete(state))
    /\ UNCHANGED routing_metrics

RouteAfterQueryAnalysis ==
    /\ Call("route_after_query_analysis", route_after_query_analysis(state))
    /\ UNCHANGED routing_metrics

RouteErrorRecovery ==
    /\ Call("route_error_recovery", route_error_recovery(state))
    /\ UNCHANGED routing_metrics

ClassifyErrorType ==
    /\ Call("classify_error_type",
            Return(classify_error_type(state.last_error), state))
    /\ UNCHANGED routing_metrics

ShouldEndSession ==
    /\ Call("should_end_session",
            Return(PyBool(should_end_session(state)), state))
    /\ UNCHANGED routing_metrics

\* the decorated router: validate, then log and record the decision
MainRouteConversation ==
    /\ total_routes(routing_metrics) < MaxRoutes
    /\ LET r == main_route_conversation(state)
       IN  /\ Call("main_route_conversation", r)
           /\ routing_metrics' =
                record_routing(routing_metrics, r.st.current_phase, r.ret)

Next ==
    \/ RouteConversation
    \/ RouteFromTopicSelection
    \/ RouteFromTopicValidation
    \/ RouteFromQuizActive
    \/ RouteFromQuestionAnswered
    \/ RouteFromQuizComplete
    \/ RouteAfterQueryAnalysis
    \/ RouteErrorRecovery
    \/ ClassifyErrorType
    \/ ShouldEndSession

Spec == Init /\ [][Next]_vars

NextValidated ==
    \/ MainRouteConversation
    \/ RouteConversation

SpecValidated == InitValidated /\ [][NextValidated]_vars

-----------------------------------------------------------------------------
(* The global RoutingMetrics instance under its two recording methods:     *)
(* record_routing, called by the log_routing_decision decorator on every   *)
(* decision of main_route_conversation, and record_error_route.            *)

InitMetrics ==
    /\ state \in
         { [DefaultState EXCEPT !.user_intent = i, !.current_phase = p,
                                !.topic_validated = tv,
                                !.topic = IF tv
                                          THEN <<"P", "y", "t", "h", "o", "n">>
                                          ELSE None] :
             i \in IntentValues, p \in PhaseValues, tv \in BOOLEAN }
    /\ InitCall

RecordErrorRoute ==
    /\ SumCounts(routing_metrics.error_routes) < MaxRoutes
    /\ \E error_type \in {"user_input_error", "llm_error",
                          "validation_error", "unknown_error"} :
          /\ routing_metrics' = record_error_route(routing_metrics, error_type)
          /\ Call("record_error_route", Return(error_type, state))

NextMetrics ==
    \/ MainRouteConversation
    \/ RecordErrorRoute

SpecMetrics == InitMetrics /\ [][NextMetrics]_vars

\* the fields read by the post-scoring routers
InitScoring ==
    /\ state \in
        { [DefaultState EXCEPT !.current_phase = "question_answered",
                               !.topic = <<"P", "y", "t", "h", "o", "n">>,
                               !.topic_validated = TRUE,
                               !.quiz_active = TRUE,
                               !.quiz_completed = qc, !.quiz_type = qt,
                               !.max_questions = mq,
                               !.total_questions_answered = n,
                               !.correct_answers_count = (n * k) \div 2,
                               !.total_score = 10 * ((n * k) \div 2),
                               !.quiz_metadata = md] :
            qc \in BOOLEAN, qt \in {"finite", "infinite"},
            mq \in {0, 5, 10}, n \in 0..MaxAnswered, k \in 0..2,
            md \in {<<>>, "user_pause_requested" :> TRUE,
                    "ended_due_to_generation_failure" :> TRUE} }
    /\ InitCall

RouteAfterScoring ==
    /\ state.current_question_index < MaxIndex
    /\ Call("route_after_scoring", route_after_scoring(state))
    /\ UNCHANGED routing_metrics

RouteAfterScoreGeneration ==
    /\ Call("route_after_score_generation",
            route_after_score_generation(state))
    /\ UNCHANGED routing_metrics

NextScoring ==
    \/ RouteAfterScoring
    \/ RouteAfterScoreGeneration

SpecScoring == InitScoring /\ [][NextScoring]_vars

-----------------------------------------------------------------------------
(* quiz_state.py: the methods used by the processing nodes.  No node or     *)
(* router reads the entries of the conversation log, so an entry is the    *)
(* token "entry"; an answer record is its is_correct flag, the one field   *)
(* calculate_performance_trend reads.                                      *)

add_conversation_entry(s) ==
    [s EXCEPT !.conversation_history = Append(@, "entry")]

\* resets the quiz fields but keeps the error bookkeeping
reset_for_new_quiz_KeepsRetryCount(s) ==
    [s EXCEPT !.topic = None, !.topic_validated = FALSE,
              !.current_question_index = 0, !.current_question = None,
              !.question_type = None, !.question_options = None,
              !.correct_answer = None, !.user_answers = <<>>,
              !.current_answer = None, !.answer_is_correct = NoBool,
              !.answer_feedback = None, !.total_score = 0,
              !.total_questions_answered = 0, !.correct_answers_count = 0,
              !.quiz_completion_percentage = 0,
              !.quiz_active = FALSE, !.quiz_completed = FALSE,
              !.current_phase = "topic_selection", !.last_error = None,
              !.quiz_metadata = <<>>]

reset_for_new_quiz(s) ==
    [s EXCEPT !.topic = None, !.topic_validated = FALSE,
              !.current_question_index = 0, !.current_question = None,
              !.question_type = None, !.question_options = None,
              !.correct_answer = None, !.user_answers = <<>>,
              !.current_answer = None, !.answer_is_correct = NoBool,
              !.answer_feedback = None, !.total_score = 0,
              !.total_questions_answered = 0, !.correct_answers_count = 0,
              !.quiz_completion_percentage = 0,
              !.quiz_active = FALSE, !.quiz_completed = FALSE,
              !.current_phase = "topic_selection", !.last_error = None,
              !.retry_count = 0, !.quiz_metadata = <<>>]

-----------------------------------------------------------------------------
(* nodes/*.py: the processing nodes.  What the language model answers is   *)
(* the parameter out of a node: a record with the kind of the outcome and, *)
(* by kind, the fields of the parsed reply or the text of the exception.   *)

\* str(e) of an exception raised by a collaborator (LLM client, graph)
ExceptionTexts ==
    {<<"L", "L", "M", " ", "c", "a", "l", "l", " ", "f", "a", "i",
       "l", "e", "d", " ", "a", "f", "t", "e", "r", " ", "3", " ",
       "a", "t", "t", "e", "m", "p", "t", "s", ":", " ", "t", "i",
       "m", "e", "o", "u", "t">>}

query_analyzer(s, out) ==
    IF s.user_input = None \/ Strip(s.user_input) = <<>>
    THEN [s EXCEPT !.last_error = <<"E", "m", "p", "t", "y", " ",
                                    "u", "s", "e", "r", " ", "i",
                                    "n", "p", "u", "t", " ", "p",
                                    "r", "o", "v", "i", "d", "e",
                                    "d">>]
    ELSE IF out.kind = "exception"
    THEN [s EXCEPT !.last_error = <<"Q", "u", "e", "r", "y", " ",
                                    "a", "n", "a", "l", "y", "s",
                                    "i", "s", " ", "f", "a", "i",
                                    "l", "e", "d", ":", " ">> \o out.text,
                   !.user_intent = "clarification"]
    ELSE
    LET s1 == IF out.kind = "error"
              THEN [s EXCEPT !.last_error = <<"I", "n", "t", "e",
                                              "n", "t", " ", "a",
                                              "n", "a", "l", "y",
                                              "s", "i", "s", " ",
                                              "f", "a", "i", "l",
                                              "e", "d", ":", " ">> \o out.text,
                             !.user_intent = "clarification"]
              ELSE [s EXCEPT !.user_intent = out.intent,
                             !.quiz_metadata =
                                ("last_intent_analysis" :>
                                    [intent |-> out.intent,
                                     timestamp |-> Timestamp]) @@ @]
        s2 == add_conversation_entry(s1)
    IN  \* if not state.last_error: state.last_error = None
        [s2 EXCEPT !.last_error = IF Truthy(@) THEN @ ELSE None]

\* Config.MAX_QUESTIONS_DEFAULT, the default of the environment variable
MAX_QUESTIONS_DEFAULT == 10

topic_validator(s, out) ==
    IF out.kind = "exception"
    THEN \* raised by the first LLM call: nothing assigned before
         [s EXCEPT !.last_error = <<"T", "o", "p", "i", "c", " ",
                                    "v", "a", "l", "i", "d", "a",
                                    "t", "i", "o", "n", " ", "f",
                                    "a", "i", "l", "e", "d", ":",
                                    " ">> \o out.text,
                   !.current_phase = "topic_selection",
                   !.topic_validated = FALSE]
    ELSE IF out.kind = "no_topic"
    THEN [s EXCEPT !.last_error = <<"C", "o", "u", "l", "d", " ",
                                    "n", "o", "t", " ", "i", "d",
                                    "e", "n", "t", "i", "f", "y",
                                    " ", "a", " ", "c", "l", "e",
                                    "a", "r", " ", "q", "u", "i",
                                    "z", " ", "t", "o", "p", "i",
                                    "c", " ", "f", "r", "o", "m",
                                    " ", "y", "o", "u", "r", " ",
                                    "i", "n", "p", "u", "t">>,
                   !.current_phase = "topic_selection"]
    ELSE
    LET s1 == [s EXCEPT !.topic = out.topic]
    IN  IF out.kind = "validation_exception"
        THEN \* raised by the second LLM call: the topic is assigned
             [s1 EXCEPT !.last_error = <<"T", "o", "p", "i", "c",
                                         " ", "v", "a", "l", "i",
                                         "d", "a", "t", "i", "o",
                                         "n", " ", "f", "a", "i",
                                         "l", "e", "d", ":", " ">> \o out.text,
                        !.current_phase = "topic_selection",
                        !.topic_validated = FALSE]
        ELSE IF out.kind = "validation_error"
        THEN [s1 EXCEPT !.last_error = <<"F", "a", "i", "l", "e",
                                         "d", " ", "t", "o", " ",
                                         "v", "a", "l", "i", "d",
                                         "a", "t", "e", " ", "t",
                                         "o", "p", "i", "c", " ",
                                         "a", "p", "p", "r", "o",
                                         "p", "r", "i", "a", "t",
                                         "e", "n", "e", "s", "s">>,
                        !.current_phase = "topic_selection"]
        ELSE IF out.kind = "valid"
        THEN [s1 EXCEPT
                !.topic_validated = TRUE,
                !.current_phase = "quiz_active",
                !.quiz_active = TRUE,
                !.quiz_metadata =
                    ("topic_category" :> "general")
                    @@ ("difficulty_level" :> out.difficulty_level)
                    @@ ("estimated_questions" :> out.estimated_questions)
                    @@ ("validation_confidence" :> "<confidence>")
                    @@ @,
                !.max_questions =
                    IF out.estimated_questions < MAX_QUESTIONS_DEFAULT
                    THEN out.estimated_questions
                    ELSE MAX_QUESTIONS_DEFAULT]
        ELSE \* is_valid false, no suggestions: the default reason
             [s1 EXCEPT !.topic_validated = FALSE,
                        !.last_error = <<"T", "o", "p", "i", "c",
                                         " ", "n", "o", "t", " ",
                                         "s", "u", "i", "t", "a",
                                         "b", "l", "e", " ", "f",
                                         "o", "r", " ", "q", "u",
                                         "i", "z", " ", "g", "e",
                                         "n", "e", "r", "a", "t",
                                         "i", "o", "n">>,
                        !.current_phase = "topic_selection",
                        !.topic = None]

quiz_generator(s, out) ==
    LET determine_question_type ==
            IF s.total_questions_answered = 0 THEN <<"m", "u", "l", "t", "i", "p", "l", "e", "_", "c", "h", "o", "i", "c", "e">>
            ELSE IF s.total_questions_answered % 3 = 0 THEN <<"o", "p", "e", "n", "_", "e", "n", "d", "e", "d">>
            ELSE IF s.total_questions_answered % 4 = 0 THEN <<"t", "r", "u", "e", "_", "f", "a", "l", "s", "e">>
            ELSE <<"m", "u", "l", "t", "i", "p", "l", "e", "_", "c", "h", "o", "i", "c", "e">>
    IN
    IF ~s.topic_validated \/ ~Truthy(s.topic)
    THEN [s EXCEPT !.last_error = <<"C", "a", "n", "n", "o", "t",
                                    " ", "g", "e", "n", "e", "r",
                                    "a", "t", "e", " ", "q", "u",
                                    "e", "s", "t", "i", "o", "n",
                                    "s", " ", "w", "i", "t", "h",
                                    "o", "u", "t", " ", "v", "a",
                                    "l", "i", "d", "a", "t", "e",
                                    "d", " ", "t", "o", "p", "i",
                                    "c">>]
    ELSE IF out.kind = "exception"
    THEN [s EXCEPT !.last_error = <<"Q", "u", "e", "s", "t", "i",
                                    "o", "n", " ", "g", "e", "n",
                                    "e", "r", "a", "t", "i", "o",
                                    "n", " ", "f", "a", "i", "l",
                                    "e", "d", ":", " ">> \o out.text]
    ELSE IF out.kind = "error"
    THEN [s EXCEPT !.last_error = <<"F", "a", "i", "l", "e", "d",
                                    " ", "t", "o", " ", "g", "e",
                                    "n", "e", "r", "a", "t", "e",
                                    " ", "q", "u", "e", "s", "t",
                                    "i", "o", "n", ".", " ", "P",
                                    "l", "e", "a", "s", "e", " ",
                                    "t", "r", "y", " ", "a", "g",
                                    "a", "i", "n", ".">>]
    ELSE IF ~Truthy(out.question) \/ ~Truthy(out.correct_answer)
    THEN [s EXCEPT !.last_error = <<"G", "e", "n", "e", "r", "a",
                                    "t", "e", "d", " ", "q", "u",
                                    "e", "s", "t", "i", "o", "n",
                                    " ", "w", "a", "s", " ", "i",
                                    "n", "c", "o", "m", "p", "l",
                                    "e", "t", "e", ".", " ", "P",
                                    "l", "e", "a", "s", "e", " ",
                                    "t", "r", "y", " ", "a", "g",
                                    "a", "i", "n", ".">>]
    ELSE [s EXCEPT
            !.current_question = out.question,
            \* result.get("type", question_type): the type asked for
            !.question_type = determine_question_type,
            !.correct_answer = out.correct_answer,
            !.question_options = None,
            !.quiz_metadata =
                ("question_" \o ToString(s.current_question_index)
                     \o "_metadata" :> [generated_at |-> Timestamp]) @@ @,
            !.last_error = None]

answer_validator(s, out) ==
    IF ~Truthy(s.current_answer) \/ ~Truthy(s.current_question)
    THEN [s EXCEPT !.last_error = <<"M", "i", "s", "s", "i", "n",
                                    "g", " ", "a", "n", "s", "w",
                                    "e", "r", " ", "o", "r", " ",
                                    "q", "u", "e", "s", "t", "i",
                                    "o", "n", " ", "f", "o", "r",
                                    " ", "v", "a", "l", "i", "d",
                                    "a", "t", "i", "o", "n">>]
    ELSE
    LET \* exact match, then letters, words and numbers of the options
        \* compared as option numbers (no option texts: options None)
        validate_multiple_choice_answer ==
            LET user_answer == Lower(Strip(s.current_answer))
                correct_answer == Lower(Strip(s.correct_answer))
                Letters == <<<<"a">>, <<"b">>, <<"c">>, <<"d">>>>
                Numbers == <<<<"0">>, <<"1">>, <<"2">>, <<"3">>>>
                Words == <<<<"f", "i", "r", "s", "t">>, <<"s", "e", "c", "o", "n", "d">>, <<"t", "h", "i", "r", "d">>, <<"f", "o", "u", "r", "t", "h">>>>
                ToNumber(x, from) ==
                    IF \E i \in 1..4 : from[i] = x
                    THEN Numbers[CHOOSE i \in 1..4 : from[i] = x]
                    ELSE x
                user_normalized ==
                    IF \E i \in 1..4 : Letters[i] = user_answer
                    THEN ToNumber(user_answer, Letters)
                    ELSE ToNumber(user_answer, Words)
                correct_normalized == ToNumber(correct_answer, Letters)
            IN  \/ user_answer = correct_answer
                \/ user_normalized = correct_normalized
                \/ \E i \in 1..4 : /\ Numbers[i] = correct_answer
                                   /\ Letters[i] = user_answer
        validate_true_false_answer ==
            LET user_answer == Lower(Strip(s.current_answer))
                correct_answer == Lower(Strip(s.correct_answer))
                true_values == {<<"t", "r", "u", "e">>, <<"t">>, <<"y", "e", "s">>, <<"y">>, <<"1">>, <<"c", "o", "r", "r", "e", "c", "t">>}
                false_values == {<<"f", "a", "l", "s", "e">>, <<"f">>, <<"n", "o">>, <<"n">>, <<"0">>, <<"i", "n", "c", "o", "r", "r", "e", "c", "t">>}
                Normal(x) == IF x \in true_values THEN "true"
                             ELSE IF x \in false_values THEN "false"
                             ELSE "none"
            IN  Normal(user_answer) = Normal(correct_answer)
                    /\ Normal(user_answer) # "none"
        llm == s.question_type \notin {<<"m", "u", "l", "t", "i", "p", "l", "e", "_", "c", "h", "o", "i", "c", "e">>, <<"t", "r", "u", "e", "_", "f", "a", "l", "s", "e">>}
        \* validate_*_answer strip() the correct answer: None raises
        raises == \/ llm /\ out.kind = "exception"
                  \/ ~llm /\ s.correct_answer = None
        text == IF llm THEN out.text ELSE StripOnNone
        is_correct ==
            IF s.question_type = <<"m", "u", "l", "t", "i", "p", "l", "e", "_", "c", "h", "o", "i", "c", "e">>
            THEN validate_multiple_choice_answer
            ELSE IF s.question_type = <<"t", "r", "u", "e", "_", "f", "a", "l", "s", "e">>
            THEN validate_true_false_answer
            ELSE out.is_correct
    IN  IF raises
        THEN [s EXCEPT !.last_error = <<"A", "n", "s", "w", "e", "r",
                                        " ", "v", "a", "l", "i", "d",
                                        "a", "t", "i", "o", "n", " ",
                                        "f", "a", "i", "l", "e", "d",
                                        ":", " ">> \o text]
        ELSE IF llm /\ out.kind = "error"
        THEN [s EXCEPT !.last_error = <<"F", "a", "i", "l", "e", "d",
                                        " ", "t", "o", " ", "v", "a",
                                        "l", "i", "d", "a", "t", "e",
                                        " ", "a", "n", "s", "w", "e",
                                        "r", ".", " ", "P", "l", "e",
                                        "a", "s", "e", " ", "t", "r",
                                        "y", " ", "a", "g", "a", "i",
                                        "n", ".">>]
        ELSE [s EXCEPT
                \* add_answer_record
                !.user_answers = Append(@, is_correct),
                !.answer_is_correct = PyBool(is_correct),
                !.answer_feedback = <<"f">>,
                !.current_phase = "question_answered"]

\* mutant: a correct answer is counted before the question is
score_generator_CorrectOnly(s) ==
    IF s.answer_is_correct = "True"
    THEN [s EXCEPT !.correct_answers_count = @ + 1]
    ELSE [s EXCEPT !.total_questions_answered = @ + 1]

score_generator(s) ==
    LET \* accuracies are compared as integers
        calculate_performance_trend(answers) ==
            LET n == Len(answers)
                Correct(from, to) ==
                    Cardinality({i \in from..to : answers[i]})
                first == IF n > 5 THEN n - 4 ELSE 1
                recent_correct == Correct(first, n)
                recent_len == n - first + 1
            IN  IF n < 3 THEN "insufficient_data"
                ELSE IF n >= 10
                THEN LET earlier_correct == Correct(n - 9, n - 5)
                     IN  IF recent_correct > earlier_correct + 1 THEN "improving"
                         \* in floats 0.6 < 0.8 - 0.2 holds
                         ELSE IF \/ recent_correct < earlier_correct - 1
                                 \/ recent_correct = 3 /\ earlier_correct = 4
                              THEN "declining"
                         ELSE "stable"
                ELSE IF 5 * recent_correct >= 4 * recent_len THEN "strong"
                ELSE IF 5 * recent_correct >= 3 * recent_len THEN "moderate"
                ELSE "struggling"
        correct == s.answer_is_correct = "True"
        difficulty ==
            IF "difficulty_level" \in DOMAIN s.quiz_metadata
            THEN s.quiz_metadata["difficulty_level"] ELSE "medium"
        \* int(10 * multiplier + bonus)
        base == IF difficulty \in {"beginner", "easy"} THEN 8
                ELSE IF difficulty \in {"hard", "advanced"} THEN 15
                ELSE 10
        bonus == IF s.question_type = <<"f", "i", "l", "l", "_", "i", "n", "_", "b", "l", "a", "n", "k">> THEN 3
                 ELSE IF s.question_type = <<"o", "p", "e", "n", "_", "e", "n", "d", "e", "d">> THEN 5
                 ELSE 0
        s1 == [s EXCEPT
                 !.total_questions_answered = @ + 1,
                 !.correct_answers_count = IF correct THEN @ + 1 ELSE @,
                 !.total_score = IF correct THEN @ + base + bonus ELSE @]
        finite == s1.quiz_type = "finite" /\ s1.max_questions # 0
        complete ==
            finite /\ s1.total_questions_answered >= s1.max_questions
        s2 == [s1 EXCEPT
                 !.quiz_completion_percentage =
                    IF finite
                    THEN <<s1.total_questions_answered * 100,
                           s1.max_questions>>
                    ELSE @,
                 !.quiz_completed = IF complete THEN TRUE ELSE @,
                 !.quiz_active = IF complete THEN FALSE ELSE @,
                 !.current_phase = IF complete THEN "quiz_complete" ELSE @]
        s3 == [s2 EXCEPT
                 !.quiz_metadata =
                    ("current_accuracy" :> calculate_accuracy(s2))
                    @@ ("performance_trend" :>
                            calculate_performance_trend(s2.user_answers))
                    @@ ("last_score_update" :> Timestamp)
                    @@ @]
    IN  IF s3.quiz_completed THEN s3 ELSE increment_question(s3)

-----------------------------------------------------------------------------
(* edges/topic_validator_router.py, quiz_generator_router.py and           *)
(* answer_validator_router.py: the routers the workflow runs after the     *)
(* topic validator, the quiz generator and the answer validator.  Their    *)
(* except branches are left out: on the fields a QuizState can hold the    *)
(* bodies raise nothing.  Lists of suggestions written to quiz_metadata    *)
(* are tokens: no node or router reads them.                               *)

SetMeta(s, updates) == [s EXCEPT !.quiz_metadata = updates @@ @]

OrEmpty(x) == IF Truthy(x) THEN x ELSE <<>>

handle_validation_failure(s) ==
    LET
        analyze_validation_failure ==
            LET error_message == Lower(OrEmpty(s.last_error))
                topic == OrEmpty(s.topic)
            IN  IF AnyKeyword(error_message, {<<"i", "n", "a", "p", "p", "r", "o", "p", "r", "i", "a", "t", "e">>,
                                              <<"n", "o", "t", " ", "s", "u", "i", "t", "a", "b", "l", "e">>})
                THEN "inappropriate_topic"
                ELSE IF AnyKeyword(error_message, {<<"u", "n", "c", "l", "e", "a", "r">>, <<"a", "m", "b", "i", "g", "u", "o", "u", "s">>})
                THEN "unclear_topic"
                ELSE IF AnyKeyword(error_message, {<<"c", "o", "m", "p", "l", "e", "x">>, <<"b", "r", "o", "a", "d">>})
                THEN "complex_topic"
                ELSE IF topic = <<>> \/ Len(Strip(topic)) < 3 THEN "unclear_topic"
                ELSE IF WordCount(topic) > 8 THEN "complex_topic"
                ELSE IF AnyKeyword(Lower(topic),
                            {<<"i", "n", "a", "p", "p", "r", "o", "p", "r", "i", "a", "t", "e">>, <<"a", "d", "u", "l", "t">>,
                             <<"o", "f", "f", "e", "n", "s", "i", "v", "e">>,
                             <<"c", "o", "n", "t", "r", "o", "v", "e", "r", "s", "i", "a", "l">>})
                THEN "inappropriate_topic"
                ELSE "unclear_topic"
        handle_max_retries_reached ==
            Return("clarification_handler",
                SetMeta(s, ("max_retries_reached" :> TRUE)
                           @@ ("failure_context" :>
                                 [retry_count |-> s.retry_count,
                                  reason |-> "Unable to find suitable quiz topic"])
                           @@ ("default_topic_options" :> "<default_topics>")))
    IN
    IF s.retry_count >= 3 THEN handle_max_retries_reached
    ELSE
    LET failure_reason == analyze_validation_failure
    IN  IF failure_reason = "inappropriate_topic"
        THEN Return("clarification_handler",
                SetMeta(s, ("suggested_topics" :> "<suggestions>")
                    @@ ("validation_failure_type" :> "inappropriate")
                    @@ ("failure_context" :>
                          [original_topic |-> s.topic,
                           reason |-> "Topic not suitable for quiz generation"])))
        ELSE IF failure_reason = "unclear_topic"
        THEN Return("clarification_handler",
                SetMeta(s, ("validation_failure_type" :> "unclear")
                    @@ ("failure_context" :>
                          [original_input |-> s.user_input,
                           reason |-> "Topic not clearly specified"])))
        ELSE Return("clarification_handler",
                SetMeta(s, ("validation_failure_type" :> "complex")
                    @@ ("failure_context" :>
                          [original_topic |-> s.topic,
                           reason |-> "Topic too complex for focused quiz"])))

route_after_topic_validation(s) ==
    IF s.topic_validated /\ Truthy(s.topic)
    THEN Return("quiz_generator", s)
    ELSE handle_validation_failure(s)

determine_next_question_flow(s) ==
    Return("query_analyzer", [s EXCEPT !.current_phase = "quiz_active"])

handle_generation_failure(s) ==
    LET
        analyze_generation_failure ==
            LET error_lower == Lower(OrEmpty(s.last_error))
            IN  IF AnyKeyword(error_lower, {<<"e", "x", "h", "a", "u", "s", "t", "e", "d">>,
                                            <<"n", "o", " ", "m",
                                              "o", "r", "e", " ",
                                              "q", "u", "e", "s",
                                              "t", "i", "o", "n",
                                              "s">>})
                THEN "topic_exhausted"
                ELSE IF AnyKeyword(error_lower, {<<"d", "i", "f", "f", "i", "c", "u", "l", "t", "y">>,
                                                 <<"t", "o", "o", " ", "h", "a", "r", "d">>,
                                                 <<"t", "o", "o", " ", "e", "a", "s", "y">>})
                THEN "difficulty_mismatch"
                ELSE IF AnyKeyword(error_lower, {<<"f", "o", "r", "m", "a", "t">>, <<"t", "y", "p", "e">>})
                THEN "format_issue"
                ELSE IF AnyKeyword(error_lower, {<<"l", "l", "m">>, <<"a", "p", "i">>})
                THEN "llm_error"
                ELSE IF s.current_question_index >= 20 THEN "topic_exhausted"
                ELSE "generation_error"
        retry_question_generation ==
            Return("quiz_generator", [s EXCEPT !.retry_count = @ + 1])
        handle_max_generation_retries ==
            IF s.total_questions_answered > 0
            THEN Return("quiz_completion_handler",
                    SetMeta([s EXCEPT !.quiz_completed = TRUE,
                                      !.current_phase = "quiz_complete"],
                            "ended_due_to_generation_failure" :> TRUE))
            ELSE Return("topic_selection_fallback",
                    SetMeta(s, "generation_completely_failed" :> TRUE))
        handle_topic_exhausted ==
            IF s.total_questions_answered >= 3
            THEN Return("quiz_completion_handler",
                    [s EXCEPT !.quiz_completed = TRUE,
                              !.current_phase = "quiz_complete"])
            ELSE Return("topic_expansion_handler",
                    SetMeta(s, ("topic_exhausted" :> TRUE)
                               @@ ("expansion_needed" :> TRUE)))
        \* calculate_accuracy() is a percentage, compared with 0.8 and 0.4
        handle_difficulty_adjustment ==
            LET acc == IF s.total_questions_answered > 0
                       THEN calculate_accuracy(s) ELSE <<1, 2>>
                level == IF "difficulty_level" \in DOMAIN s.quiz_metadata
                         THEN s.quiz_metadata["difficulty_level"] ELSE "medium"
                up == IF level \in {"beginner", "easy"} THEN "medium"
                      ELSE IF level \in {"medium", "intermediate"} THEN "hard"
                      ELSE IF level = "hard" THEN "advanced"
                      ELSE IF level = "advanced" THEN "expert"
                      ELSE "hard"
                down == IF level = "expert" THEN "advanced"
                        ELSE IF level = "advanced" THEN "hard"
                        ELSE IF level \in {"hard", "intermediate"} THEN "medium"
                        ELSE IF level = "medium" THEN "easy"
                        ELSE IF level \in {"easy", "beginner"} THEN "beginner"
                        ELSE "easy"
                s1 == IF 5 * acc[1] > 4 * acc[2]
                      THEN SetMeta(s, ("difficulty_level" :> up)
                                      @@ ("difficulty_adjusted" :> "increased"))
                      ELSE IF 5 * acc[1] < 2 * acc[2]
                      THEN SetMeta(s, ("difficulty_level" :> down)
                                      @@ ("difficulty_adjusted" :> "decreased"))
                      ELSE s
            IN  Return("quiz_generator", [s1 EXCEPT !.retry_count = @ + 1])
        \* get_alternative_question_types never returns an empty list
        handle_format_issue ==
            Return("quiz_generator",
                [SetMeta(s, ("original_question_type" :> s.question_type)
                            @@ ("format_fallback" :> TRUE))
                    EXCEPT !.retry_count = @ + 1])
        handle_llm_generation_error ==
            IF s.retry_count < 3
            THEN Return("quiz_generator", [s EXCEPT !.retry_count = @ + 1])
            ELSE Return("fallback_generator",
                    SetMeta(s, "llm_fallback_mode" :> TRUE))
    IN
    IF s.retry_count >= 3 THEN handle_max_generation_retries
    ELSE
    LET failure_reason == analyze_generation_failure
    IN  IF failure_reason = "topic_exhausted" THEN handle_topic_exhausted
        ELSE IF failure_reason = "difficulty_mismatch"
        THEN handle_difficulty_adjustment
        ELSE IF failure_reason = "format_issue" THEN handle_format_issue
        ELSE IF failure_reason = "llm_error"
        THEN handle_llm_generation_error
        ELSE retry_question_generation

\* retries the generation on every failure, whatever retry_count is
route_after_question_generation_AlwaysRetries(s) ==
    IF Truthy(s.current_question) /\ Truthy(s.correct_answer)
    THEN determine_next_question_flow(s)
    ELSE Return("quiz_generator", [s EXCEPT !.retry_count = @ + 1])

\* mutant: one more retry is granted at the ceiling
route_after_question_generation_FourthRetry(s) ==
    IF Truthy(s.current_question) /\ Truthy(s.correct_answer)
    THEN determine_next_question_flow(s)
    ELSE IF s.retry_count = 3
    THEN Return("quiz_generator", [s EXCEPT !.retry_count = @ + 1])
    ELSE handle_generation_failure(s)

route_after_question_generation(s) ==
    IF Truthy(s.current_question) /\ Truthy(s.correct_answer)
    THEN determine_next_question_flow(s)
    ELSE handle_generation_failure(s)

handle_validation_errors(s) ==
    LET
        analyze_validation_error ==
            LET error_lower == Lower(OrEmpty(s.last_error))
                answer == OrEmpty(s.current_answer)
            IN  IF Strip(answer) = <<>> THEN "empty_answer"
                ELSE IF AnyKeyword(error_lower, {<<"f", "o", "r", "m", "a", "t">>, <<"i", "n", "v", "a", "l", "i", "d">>})
                THEN "invalid_format"
                ELSE IF AnyKeyword(error_lower, {<<"l", "l", "m">>, <<"a", "p", "i">>})
                THEN "llm_error"
                ELSE IF AnyKeyword(error_lower, {<<"t", "i", "m", "e", "o", "u", "t">>,
                                                 <<"t", "o", "o", "k", " ", "t", "o", "o", " ", "l", "o", "n", "g">>})
                THEN "timeout_error"
                ELSE IF AnyKeyword(error_lower, {<<"n", "e", "t", "w", "o", "r", "k">>,
                                                 <<"c", "o", "n", "n", "e", "c", "t", "i", "o", "n">>})
                THEN "network_error"
                ELSE "unknown_error"
        skip_validation_and_continue ==
            Return("score_generator",
                SetMeta([s EXCEPT !.answer_is_correct = "True",
                                  !.answer_feedback = <<"f">>],
                        ("validation_skipped" :> TRUE)
                        @@ ("skip_reason" :> "Technical validation failure")))
        \* should_skip_validation: retry_count >= 3 and a question answered
        handle_max_validation_retries ==
            IF s.retry_count >= 3 /\ s.total_questions_answered > 0
            THEN skip_validation_and_continue
            ELSE Return("clarification_handler",
                    SetMeta(s, "max_retries_reached" :> TRUE))
        retry_answer_validation ==
            Return("answer_validator", [s EXCEPT !.retry_count = @ + 1])
    IN
    IF s.retry_count >= 3 THEN handle_max_validation_retries
    ELSE
    LET error_type == analyze_validation_error
    IN  IF error_type = "empty_answer"
        THEN Return("clarification_handler",
                SetMeta(s, ("validation_error_type" :> "empty_answer")
                           @@ ("retry_request" :> "<request>")))
        ELSE IF error_type = "invalid_format"
        THEN Return("clarification_handler",
                SetMeta(s, ("validation_error_type" :> "invalid_format")
                           @@ ("format_guidance" :> "<guidance>")
                           @@ ("retry_request" :> "<request>")))
        \* handle_llm_validation_error: here retry_count < 3
        ELSE IF error_type = "llm_error" THEN retry_answer_validation
        \* handle_timeout_error
        ELSE IF error_type = "timeout_error"
        THEN IF s.retry_count < 2 THEN retry_answer_validation
             ELSE skip_validation_and_continue
        ELSE retry_answer_validation

route_after_answer_validation(s) ==
    IF s.answer_is_correct # NoBool
    THEN \* route_based_on_correctness
         Return("score_generator",
                [s EXCEPT !.current_phase = "question_answered"])
    ELSE handle_validation_errors(s)

-----------------------------------------------------------------------------
(* workflow.py: the helper nodes and the compiled graph.  process_input    *)
(* hands the session state to the graph, which runs query_analyzer first   *)
(* and then, after each node, the router of the node and the node its      *)
(* conditional-edge map gives for the returned target, until the target is *)
(* END.  The nodes and routers share the one state object they are given.  *)
(* workflow.at is the node the graph is at ("idle" between two calls of    *)
(* process_input), workflow.routing tells that the node has run and its    *)
(* router is next, workflow.steps counts the nodes run for this input and  *)
(* workflow.turns the calls of process_input.                              *)

clarification_handler(s) ==
    [add_conversation_entry(s) EXCEPT !.user_input = <<>>,
                                      !.last_error = None]

quiz_completion_handler(s) ==
    [add_conversation_entry(s) EXCEPT !.current_phase = "quiz_complete"]

session_manager(s) ==
    IF s.user_intent = "new_quiz"
    THEN add_conversation_entry(reset_for_new_quiz(s))
    ELSE IF s.user_intent = "exit" THEN add_conversation_entry(s)
    ELSE s

\* add_conditional_edges: for each node with a router, the targets its
\* map names; each is mapped to the node of the same name, "end" to END
edges ==
    [query_analyzer |->
        {"topic_validator", "answer_validator", "quiz_generator",
         "score_generator", "clarification_handler", "session_manager",
         "end"},
     topic_validator |->
        {"quiz_generator", "clarification_handler", "session_manager",
         "end"},
     quiz_generator |->
        {"query_analyzer", "quiz_generator", "quiz_completion_handler",
         "end"},
     answer_validator |-> {"score_generator", "clarification_handler"},
     score_generator |->
        {"quiz_generator", "quiz_completion_handler", "query_analyzer"}]

\* str(e) of the KeyError the graph raises for a target outside the map
KeyErrorText(target) ==
    LET name ==
               ("query_analyzer" :>
                 <<"q", "u", "e", "r", "y", "_", "a", "n", "a", "l", "y", "z", "e", "r">>)
            @@ ("answer_validator" :>
                 <<"a", "n", "s", "w", "e", "r", "_", "v", "a", "l", "i", "d", "a", "t", "o", "r">>)
            @@ ("topic_selection_fallback" :>
                 <<"t", "o", "p", "i", "c", "_", "s", "e", "l", "e", "c", "t", "i", "o", "n", "_", "f", "a", "l", "l", "b", "a", "c", "k">>)
            @@ ("topic_expansion_handler" :>
                 <<"t", "o", "p", "i", "c", "_", "e", "x", "p", "a", "n", "s", "i", "o", "n", "_", "h", "a", "n", "d", "l", "e", "r">>)
            @@ ("fallback_generator" :>
                 <<"f", "a", "l", "l", "b", "a", "c", "k", "_", "g", "e", "n", "e", "r", "a", "t", "o", "r">>)
            @@ ("continuation_check_handler" :>
                 <<"c", "o", "n", "t", "i", "n", "u", "a", "t", "i", "o", "n", "_", "c", "h", "e", "c", "k", "_", "h", "a", "n", "d", "l", "e", "r">>)
            @@ ("feedback_handler" :>
                 <<"f", "e", "e", "d", "b", "a", "c", "k", "_", "h", "a", "n", "d", "l", "e", "r">>)
    IN  <<"'">> \o name[target] \o <<"'">>

\* process_input, except branch: the caller's state object, as the nodes
\* left it, with the diagnostic; a fresh state when the caller had none
error_state(s, text) ==
    LET last_error == <<"S", "y", "s", "t", "e", "m", " ", "e", "r", "r", "o", "r", ":", " ">> \o text
    IN  IF workflow.turns = 1
        THEN [DefaultState EXCEPT !.last_error = last_error]
        ELSE [s EXCEPT !.last_error = last_error]

\* what the user types
FlowInputs == {<<>>, <<" ", "4">>}

\* what the language model replies to each node: the kind of the outcome
\* and, by kind, fields of the parsed reply or the text of the exception
Outcome(kind) ==
    [kind |-> kind, text |-> None, intent |-> NoIntent, topic |-> None,
     estimated_questions |-> 0, difficulty_level |-> "medium",
     question |-> None, correct_answer |-> None, is_correct |-> FALSE]

Outcomes ==
    LET Failures(text) ==
            {[Outcome("error") EXCEPT !.text = text]}
            \cup {[Outcome("exception") EXCEPT !.text = t] :
                    t \in ExceptionTexts}
        topic == <<"P", "y", "t", "h", "o", "n">>
    IN  [query_analyzer |->
            {[Outcome("intent") EXCEPT !.intent = i] :
                i \in Intents \cup {"unknown"}}
            \cup Failures(<<"F", "a", "i", "l", "e", "d", " ", "t",
                            "o", " ", "p", "a", "r", "s", "e", " ",
                            "J", "S", "O", "N", " ", "r", "e", "s",
                            "p", "o", "n", "s", "e">>),
         topic_validator |->
            {Outcome("no_topic")}
            \cup {[Outcome(k) EXCEPT !.topic = topic] :
                    k \in {"validation_error", "invalid"}}
            \cup {[Outcome("valid") EXCEPT !.topic = topic,
                                           !.estimated_questions = n] :
                    n \in {1, 12}}
            \cup {[Outcome(k) EXCEPT !.text = e, !.topic = topic] :
                    k \in {"exception", "validation_exception"},
                    e \in ExceptionTexts},
         quiz_generator |->
            {[Outcome("question") EXCEPT !.question = <<"Q">>,
                                        !.correct_answer = a] :
                a \in {None, <<"4">>, <<"5">>}}
            \cup Failures(None),
         answer_validator |->
            {[Outcome("validated") EXCEPT !.is_correct = b] :
                b \in BOOLEAN}
            \cup Failures(None)]

InitFlow ==
    /\ state = DefaultState
    /\ InitCall

\* one step of the graph: a node or a router has run
Step(name, s, at, routing) ==
    /\ last_op' = name
    /\ pre_state' = state
    /\ state' = s
    /\ raised' = NoExc
    /\ workflow' = [workflow EXCEPT !.at = at, !.routing = routing,
                                    !.steps = IF routing THEN @ + 1 ELSE @]
    /\ UNCHANGED routing_metrics

\* the graph is at the node: the node is due and the recursion limit
\* allows it, or (routing) the node has run and its router is next
At(name, routing) ==
    /\ workflow.at = name
    /\ workflow.routing = routing
    /\ routing \/ workflow.steps < MaxSteps

\* the router of the node has returned r: follow the conditional edge
Follow(router, r) ==
    /\ result' = r.ret
    /\ IF r.ret \in edges[workflow.at]
       THEN Step(router, r.st, IF r.ret = "end" THEN "idle" ELSE r.ret, FALSE)
       ELSE Step(router, error_state(r.st, KeyErrorText(r.ret)), "idle", FALSE)

ProcessInput ==
    /\ workflow.at = "idle"
    /\ workflow.turns < MaxTurns
    /\ \E user_input \in FlowInputs :
          state' = [state EXCEPT !.user_input = Strip(user_input)]
    /\ last_op' = "process_input"
    /\ pre_state' = state
    /\ result' = "none"
    /\ raised' = NoExc
    /\ workflow' = [at |-> "query_analyzer", routing |-> FALSE, steps |-> 0,
                    turns |-> workflow.turns + 1]
    /\ UNCHANGED routing_metrics

RecursionLimit ==
    /\ workflow.at # "idle"
    /\ ~workflow.routing
    /\ workflow.steps >= MaxSteps
    /\ result' = "none"
    /\ Step("process_input",
            \* str(e) of the GraphRecursionError
            error_state(state, <<"R", "e", "c", "u", "r", "s", "i",
                                 "o", "n", " ", "l", "i", "m", "i",
                                 "t", " ", "o", "f", " ", "2", "5",
                                 " ", "r", "e", "a", "c", "h", "e",
                                 "d", " ", "w", "i", "t", "h", "o",
                                 "u", "t", " ", "h", "i", "t", "t",
                                 "i", "n", "g", " ", "a", " ", "s",
                                 "t", "o", "p", " ", "c", "o", "n",
                                 "d", "i", "t", "i", "o", "n", ".">>),
            "idle", FALSE)

QueryAnalyzer ==
    /\ At("query_analyzer", FALSE)
    /\ result' = "none"
    /\ \E out \in Outcomes.query_analyzer :
          Step("query_analyzer", query_analyzer(state, out),
               "query_analyzer", TRUE)

TopicValidator ==
    /\ At("topic_validator", FALSE)
    /\ result' = "none"
    /\ \E out \in Outcomes.topic_validator :
          Step("topic_validator", topic_validator(state, out),
               "topic_validator", TRUE)

QuizGenerator ==
    /\ At("quiz_generator", FALSE)
    /\ result' = "none"
    /\ \E out \in Outcomes.quiz_generator :
          Step("quiz_generator", quiz_generator(state, out),
               "quiz_generator", TRUE)

AnswerValidator ==
    /\ At("answer_validator", FALSE)
    /\ result' = "none"
    /\ \E out \in Outcomes.answer_validator :
          Step("answer_validator", answer_validator(state, out),
               "answer_validator", TRUE)

ScoreGenerator ==
    /\ At("score_generator", FALSE)
    /\ result' = "none"
    /\ Step("score_generator", score_generator(state),
            "score_generator", TRUE)

\* the helper nodes have one edge, to query_analyzer
ClarificationHandler ==
    /\ At("clarification_handler", FALSE)
    /\ result' = "none"
    /\ workflow' = [workflow EXCEPT !.at = "query_analyzer",
                                    !.steps = @ + 1]
    /\ last_op' = "clarification_handler"
    /\ pre_state' = state
    /\ state' = clarification_handler(state)
    /\ raised' = NoExc
    /\ UNCHANGED routing_metrics

QuizCompletionHandler ==
    /\ At("quiz_completion_handler", FALSE)
    /\ result' = "none"
    /\ workflow' = [workflow EXCEPT !.at = "query_analyzer",
                                    !.steps = @ + 1]
    /\ last_op' = "quiz_completion_handler"
    /\ pre_state' = state
    /\ state' = quiz_completion_handler(state)
    /\ raised' = NoExc
    /\ UNCHANGED routing_metrics

RouteQueryAnalysis ==
    /\ At("query_analyzer", TRUE)
    /\ Follow("route_after_query_analysis", route_after_query_analysis(state))

RouteTopicValidation ==
    /\ At("topic_validator", TRUE)
    /\ Follow("route_after_topic_validation", route_after_topic_validation(state))

RouteQuestionGeneration ==
    /\ At("quiz_generator", TRUE)
    /\ Follow("route_after_question_generation", route_after_question_generation(state))

RouteAnswerValidation ==
    /\ At("answer_validator", TRUE)
    /\ Follow("route_after_answer_validation", route_after_answer_validation(state))

RouteScoring ==
    /\ At("score_generator", TRUE)
    /\ Follow("route_after_scoring", route_after_scoring(state))

NextFlow ==
    \/ ProcessInput
    \/ RecursionLimit
    \/ QueryAnalyzer
    \/ TopicValidator
    \/ QuizGenerator
    \/ AnswerValidator
    \/ ScoreGenerator
    \/ ClarificationHandler
    \/ QuizCompletionHandler
    \/ RouteQueryAnalysis
    \/ RouteTopicValidation
    \/ RouteQuestionGeneration
    \/ RouteAnswerValidation
    \/ RouteScoring

SpecFlow == InitFlow /\ [][NextFlow]_vars

-----------------------------------------------------------------------------
(* The steps that write the answer counters, run in any order on a quiz in *)
(* progress: the scoring node, the post-scoring router and the node that   *)
(* resets the session for a new quiz.                                      *)

InitProgress ==
    /\ state \in
         { [DefaultState EXCEPT
               !.user_intent = i,
               !.current_phase = "question_answered",
               !.topic = <<"P", "y", "t", "h", "o", "n">>,
               !.topic_validated = TRUE,
               !.quiz_active = TRUE,
               !.quiz_type = qt,
               !.max_questions = mq,
               !.answer_is_correct = b] :
             i \in {"new_quiz", "exit", "answer_question"},
             qt \in {"finite", "infinite"}, mq \in {0, 2, 10},
             b \in OptBools }
    /\ InitCall

ScoreGeneratorStep ==
    /\ state.total_questions_answered < MaxAnswered
    /\ \E b \in OptBools :
          Call("score_generator",
               Return("none", score_generator([state EXCEPT
                                                 !.answer_is_correct = b])))
    /\ UNCHANGED routing_metrics

RouteAfterScoringStep ==
    /\ state.current_question_index < MaxIndex
    /\ Call("route_after_scoring", route_after_scoring(state))
    /\ UNCHANGED routing_metrics

SessionManagerStep ==
    /\ Len(state.conversation_history) < MaxLog
    /\ Call("session_manager", Return("query_analyzer", session_manager(state)))
    /\ UNCHANGED routing_metrics

NextProgress ==
    \/ ScoreGeneratorStep
    \/ RouteAfterScoringStep
    \/ SessionManagerStep

SpecProgress == InitProgress /\ [][NextProgress]_vars

-----------------------------------------------------------------------------
(* QuizState.reset_for_new_quiz called on a session at any point of a      *)
(* quiz: n questions answered, c of them correctly, a question asked or    *)
(* not, an answer validated or not, an error pending or not.               *)

InitReset ==
    /\ state \in
         { [DefaultState EXCEPT
               !.user_input = <<"N", "e", "w">>,
               !.user_intent = i,
               !.current_phase = p,
               !.topic = <<"P", "y", "t", "h", "o", "n">>,
               !.topic_validated = TRUE,
               !.quiz_type = cfg[1],
               !.max_questions = cfg[2],
               !.current_question_index = n,
               !.current_question = q,
               !.question_type = IF q = None THEN None ELSE <<"o">>,
               !.correct_answer = IF q = None THEN None ELSE <<"4">>,
               !.user_answers = [k \in 1..n |-> "True"],
               !.current_answer = IF b = NoBool THEN None ELSE <<"4">>,
               !.answer_is_correct = b,
               !.answer_feedback = IF b = NoBool THEN None ELSE <<"f">>,
               !.total_score = 10 * c,
               !.total_questions_answered = n,
               !.correct_answers_count = c,
               !.quiz_completion_percentage =
                   IF cfg[2] > 0 THEN <<n * 100, cfg[2]>> ELSE 0,
               !.quiz_active = p # "quiz_complete",
               !.quiz_completed = (p = "quiz_complete"),
               !.last_error = e,
               !.retry_count = rc,
               !.conversation_history = h,
               !.quiz_metadata = md] :
             i \in {"new_quiz", "exit"},
             p \in {"quiz_active", "question_answered", "quiz_complete"},
             cfg \in {<<"finite", MAX_QUESTIONS_DEFAULT>>, <<"infinite", 0>>},
             n \in 0..MaxIndex, c \in 0..MaxIndex,
             q \in {None, <<"Q">>}, b \in OptBools,
             e \in {None, <<"U", "n", "k", "n", "o", "w", "n", " ",
                            "e", "r", "r", "o", "r">>},
             rc \in 0..MaxRetry,
             h \in {<<>>, <<"entry">>},
             md \in {<<>>, [max_retries_reached |-> TRUE]} }
    /\ state.correct_answers_count <= state.total_questions_answered
    /\ InitCall

ResetForNewQuiz ==
    /\ Call("reset_for_new_quiz", Return("none", reset_for_new_quiz(state)))
    /\ UNCHANGED routing_metrics

SpecReset == InitReset /\ [][ResetForNewQuiz]_vars

-----------------------------------------------------------------------------
(* workflow.py: _wrap_node.  r is what the node function did when called   *)
(* on the state: it returned (r.st is the state it returned) or it raised  *)
(* (r.exc is str(e), r.st the state object as the node left it).           *)

\* mutant: the failure is reported but not counted
wrapped_node_NoCount(name, r) ==
    IF r.exc # NoExc
    THEN [r.st EXCEPT
            !.last_error = <<"S", "y", "s", "t", "e", "m", " ", "e", "r",
                             "r", "o", "r", " ", "i", "n", " ">>
                           \o name \o <<":", " ">> \o r.exc]
    ELSE r.st

wrapped_node(name, r) ==
    IF r.exc # NoExc
    THEN [r.st EXCEPT
            !.last_error = <<"S", "y", "s", "t", "e", "m", " ", "e", "r",
                             "r", "o", "r", " ", "i", "n", " ">>
                           \o name \o <<":", " ">> \o r.exc,
            !.retry_count = @ + 1]
    ELSE r.st

InitWrap ==
    /\ state \in
         { [DefaultState EXCEPT
               !.user_input = ui, !.user_intent = "answer_question",
               !.current_phase = "question_answered",
               !.topic = <<"P", "y", "t", "h", "o", "n">>,
               !.topic_validated = TRUE, !.quiz_active = TRUE,
               !.answer_is_correct = b, !.last_error = e,
               !.retry_count = rc] :
             ui \in {<<>>, <<"4">>}, b \in OptBools,
             e \in {None, <<"U", "n", "k", "n", "o", "w", "n", " ",
                            "e", "r", "r", "o", "r">>},
             rc \in 0..MaxRetry }
    /\ InitCall

\* a wrapped node is called: a node function that raises before it has
\* written anything (result is Raised), or score_generator or
\* query_analyzer, which return
WrappedNode ==
    /\ state.retry_count <= MaxRetry
    /\ state.total_questions_answered < MaxIndex
    /\ Len(state.conversation_history) < MaxLog
    /\ \E r \in {Raise(e, state) :
                    e \in ExceptionTexts
                          \cup {<<"N", "o", "d", "e", " ", "f", "a", "i",
                                  "l", "e", "d">>}}
                \cup {Return("none", score_generator(state))}
                \cup {Return("none", query_analyzer(state, out)) :
                        out \in Outcomes.query_analyzer} :
          /\ last_op' = "wrapped_node"
          /\ pre_state' = state
          /\ state' = wrapped_node(<<"f", "a", "i", "l", "i", "n", "g", "_",
                                     "n", "o", "d", "e">>, r)
          /\ result' = r.ret
          \* nothing escapes the wrapper
          /\ raised' = NoExc
    /\ UNCHANGED <<routing_metrics, workflow>>

SpecWrap == InitWrap /\ [][WrappedNode]_vars

-----------------------------------------------------------------------------
(* Properties of the routing engine.  last_op names the routing function   *)
(* of the last call, pre_state the session state it was called on, state   *)
(* the session state it left, result the node it returned.                *)

\* C1: whatever the phase (known or not) and the other fields, a call of
\* route_conversation or route_after_query_analysis with intent exit
\* returns "end".
C1_ExitRoutesToEnd ==
    (/\ last_op \in {"route_conversation", "route_after_query_analysis"}
     /\ pre_state.user_intent = "exit")
    => result = "end"

C1_Witness ==
    /\ last_op = "route_conversation"
    /\ pre_state.user_intent = "exit"
    /\ pre_state.current_phase = UnknownPhase
    /\ result = "end"

\* C2: in every phase, a call of the router (route_conversation, and the
\* validated main_route_conversation) with intent new_quiz returns
\* "topic_validator".  The user text is taken to be present, so that the
\* prerequisite of topic_validator is not what decides.
C2_NewQuizRoutesToTopicValidator ==
    (/\ last_op \in {"route_conversation", "main_route_conversation"}
     /\ pre_state.user_intent = "new_quiz"
     /\ pre_state.current_phase \in Phases
     /\ pre_state.user_input \notin {None, <<>>})
    => result = "topic_validator"

\* C3: the node returned by main_route_conversation is query_analyzer, or
\* it is a legal successor of the state's phase and its required inputs
\* are present in the state.
C3_ValidatedTargetHasPrerequisites ==
    last_op = "main_route_conversation" =>
        \/ result = "query_analyzer"
        \/ /\ state.current_phase \in Phases
           /\ result \in valid_transitions[state.current_phase]
           /\ result = "topic_validator" =>
                state.user_input \notin {None, <<>>}
           /\ result = "quiz_generator" =>
                state.topic_validated /\ state.topic \notin {None, <<>>}
           /\ result = "answer_validator" =>
                /\ state.current_answer \notin {None, <<>>}
                /\ state.current_question \notin {None, <<>>}
           /\ result = "score_generator" => state.answer_is_correct # NoBool

\* score_generator proposed with answer_is_correct unset, replaced
C3_Witness ==
    /\ last_op = "main_route_conversation"
    /\ pre_state.current_phase = "question_answered"
    /\ pre_state.user_intent = "continue"
    /\ pre_state.answer_is_correct = NoBool
    /\ result = "query_analyzer"

\* C4: route_from_quiz_active in phase quiz_active, on a textual user
\* input: answer_question gives answer_validator, clarification gives
\* clarification_handler; any other intent gives answer_validator with the
\* intent overwritten by answer_question exactly when a question is pending
\* and the stripped text is non-empty, and otherwise clarification_handler
\* with the intent left as it was.
C4_QuizActiveRouting ==
    (/\ last_op = "route_from_quiz_active"
     /\ pre_state.current_phase = "quiz_active"
     /\ pre_state.user_input # None)
    =>
    LET pending == /\ pre_state.current_question \notin {None, <<>>}
                   /\ Strip(pre_state.user_input) # <<>>
    IN  /\ pre_state.user_intent = "answer_question" =>
            result = "answer_validator"
        /\ pre_state.user_intent = "clarification" =>
            result = "clarification_handler"
        /\ pre_state.user_intent \notin {"answer_question", "clarification"} =>
            IF pending
            THEN /\ result = "answer_validator"
                 /\ state.user_intent = "answer_question"
            ELSE /\ result = "clarification_handler"
                 /\ state.user_intent = pre_state.user_intent

\* a pending question and a blank text: no override
C4_Witness ==
    /\ last_op = "route_from_quiz_active"
    /\ pre_state.current_phase = "quiz_active"
    /\ pre_state.user_intent = "unknown"
    /\ pre_state.current_question = <<"Q">>
    /\ pre_state.user_input = <<" ">>
    /\ result = "clarification_handler"
    /\ state.user_intent = "unknown"

\* C5: route_from_topic_validation in phase topic_validation returns
\* quiz_generator when the topic is validated, and otherwise end when
\* retry_count >= 3 and clarification_handler when retry_count < 3.
C5_TopicValidationRouting ==
    (/\ last_op = "route_from_topic_validation"
     /\ pre_state.current_phase = "topic_validation")
    =>
    result = IF pre_state.topic_validated THEN "quiz_generator"
             ELSE IF pre_state.retry_count >= 3 THEN "end"
             ELSE "clarification_handler"

C5_Witness ==
    /\ last_op = "route_from_topic_validation"
    /\ pre_state.current_phase = "topic_validation"
    /\ ~pre_state.topic_validated
    /\ pre_state.retry_count = 3
    /\ result = "end"

\* C6: whenever retry_count >= 5, the decision of route_conversation and of
\* route_error_recovery is "end", whatever the error kind, phase or intent.
C6_RetryCeilingEndsSession ==
    (/\ last_op \in {"route_conversation", "route_error_recovery"}
     /\ pre_state.retry_count >= 5)
    => result = "end"

\* C7 (as stated): when a phase router raises, route_conversation returns
\* query_analyzer and the text of the error is stored in last_error.
C7_ErrorTextRecorded ==
    (/\ last_op = "route_conversation"
     /\ route_conversation_body(pre_state).exc # NoExc)
    =>
    /\ result = "query_analyzer"
    /\ state.last_error # None
    /\ Contains(state.last_error, route_conversation_body(pre_state).exc)

\* C7 (amended): when a phase router raises, route_conversation lets no
\* exception escape, returns query_analyzer and leaves the session state,
\* last_error included, as it was.
C7_RoutingErrorFallsBack ==
    (/\ last_op = "route_conversation"
     /\ route_conversation_body(pre_state).exc # NoExc)
    =>
    /\ raised = NoExc
    /\ result = "query_analyzer"
    /\ state = pre_state

C7_Witness ==
    /\ last_op = "route_conversation"
    /\ pre_state.current_phase = "quiz_active"
    /\ pre_state.user_intent = NoIntent
    /\ pre_state.current_question = <<"Q">>
    /\ pre_state.user_input = None
    /\ result = "query_analyzer"
    /\ state.last_error = None

\* C8: route_from_topic_selection in phase topic_selection returns
\* topic_validator for intent start_quiz and clarification_handler for
\* every other intent, a missing one included.
C8_TopicSelectionRouting ==
    (/\ last_op = "route_from_topic_selection"
     /\ pre_state.current_phase = "topic_selection")
    =>
    result = IF pre_state.user_intent = "start_quiz" THEN "topic_validator"
             ELSE "clarification_handler"

C8_Witness ==
    /\ last_op = "route_from_topic_selection"
    /\ pre_state.current_phase = "topic_selection"
    /\ pre_state.user_intent = NoIntent
    /\ result = "clarification_handler"

\* C9: route_from_question_answered in phase question_answered returns
\* clarification_handler for intent clarification and score_generator for
\* every other intent.
C9_QuestionAnsweredRouting ==
    (/\ last_op = "route_from_question_answered"
     /\ pre_state.current_phase = "question_answered")
    =>
    result = IF pre_state.user_intent = "clarification"
             THEN "clarification_handler"
             ELSE "score_generator"

C9_Witness ==
    /\ last_op = "route_from_question_answered"
    /\ pre_state.current_phase = "question_answered"
    /\ pre_state.user_intent = "unknown"
    /\ result = "score_generator"

\* C10: route_from_quiz_complete in phase quiz_complete returns
\* topic_validator for intent new_quiz or start_quiz and end for every
\* other intent.
C10_QuizCompleteRouting ==
    (/\ last_op = "route_from_quiz_complete"
     /\ pre_state.current_phase = "quiz_complete")
    =>
    result = IF pre_state.user_intent \in {"new_quiz", "start_quiz"}
             THEN "topic_validator"
             ELSE "end"

C10_Witness ==
    /\ last_op = "route_from_quiz_complete"
    /\ pre_state.current_phase = "quiz_complete"
    /\ pre_state.user_intent = "start_quiz"
    /\ result = "topic_validator"

\* C11: when the phase is none of the five known phases and the intent is
\* neither exit nor new_quiz, route_conversation returns query_analyzer and
\* leaves the session state as it was.
C11_UnknownPhaseRoutesToQueryAnalyzer ==
    (/\ last_op = "route_conversation"
     /\ pre_state.current_phase \notin Phases
     /\ pre_state.user_intent \notin {"exit", "new_quiz"})
    =>
    /\ result = "query_analyzer"
    /\ state = pre_state

C11_Witness ==
    /\ last_op = "route_conversation"
    /\ pre_state.current_phase = UnknownPhase
    /\ pre_state.user_intent = "continue"
    /\ result = "query_analyzer"

\* C12: the quiz_active intent override is idempotent.  After a call of the
\* router on a quiz_active state with intent unknown, a pending question
\* and a non-blank user text, a second call of the router on the state the
\* first call left returns the same node, answer_validator, and leaves
\* that state unchanged.
C12_OverrideIdempotent ==
    [][(/\ last_op \in {"route_conversation", "route_from_quiz_active"}
        /\ pre_state.current_phase = "quiz_active"
        /\ pre_state.user_intent = "unknown"
        /\ Truthy(pre_state.current_question)
        /\ pre_state.user_input # None
        /\ Strip(pre_state.user_input) # <<>>
        /\ last_op' \in {"route_conversation", "route_from_quiz_active"})
       =>
       (/\ result = "answer_validator"
        /\ result' = result
        /\ state' = state
        /\ raised' = NoExc)]_vars

\* the state the first call left: the override has rewritten the intent
C12_Witness ==
    /\ last_op = "route_conversation"
    /\ pre_state.current_phase = "quiz_active"
    /\ pre_state.user_intent = "unknown"
    /\ pre_state.current_question = <<"Q">>
    /\ pre_state.user_input = <<" ", "4", " ">>
    /\ state.user_intent = "answer_question"
    /\ result = "answer_validator"

\* C15 (as stated): the classifier breaks ties by the precedence Network
\* and LLM, then Validation, then UserInput: a text with an LLM or network
\* keyword is never classified validation_error or user_input_error, and a
\* text with a validation keyword and no LLM or network keyword is never
\* classified user_input_error.
C15_LlmBeforeValidationBeforeUserInput ==
    (/\ last_op = "classify_error_type"
     /\ Truthy(pre_state.last_error))
    =>
    LET error_lower == Lower(pre_state.last_error)
    IN  /\ AnyKeyword(error_lower, LlmKeywords) =>
            result \notin {"validation_error", "user_input_error"}
        /\ (/\ AnyKeyword(error_lower, ValidationKeywords)
            /\ ~AnyKeyword(error_lower, LlmKeywords)) =>
            result # "user_input_error"

\* C15 (amended): the classifier breaks ties by the precedence UserInput,
\* then LLM and network, then Validation: a text with a user-input keyword
\* is user_input_error, a text with an LLM or network keyword and no
\* user-input keyword is llm_error, and a text with only validation
\* keywords is validation_error.
C15_UserInputBeforeLlmBeforeValidation ==
    (/\ last_op = "classify_error_type"
     /\ Truthy(pre_state.last_error))
    =>
    LET error_lower == Lower(pre_state.last_error)
        ui == AnyKeyword(error_lower, UserInputKeywords)
        llm == AnyKeyword(error_lower, LlmKeywords)
        val == AnyKeyword(error_lower, ValidationKeywords)
    IN  /\ ui => result = "user_input_error"
        /\ (llm /\ ~ui) => result = "llm_error"
        /\ (val /\ ~llm /\ ~ui) => result = "validation_error"

\* "Invalid input format": validation and user-input keywords
C15_Witness ==
    /\ last_op = "classify_error_type"
    /\ Truthy(pre_state.last_error)
    /\ AnyKeyword(Lower(pre_state.last_error), ValidationKeywords)
    /\ AnyKeyword(Lower(pre_state.last_error), UserInputKeywords)
    /\ ~AnyKeyword(Lower(pre_state.last_error), LlmKeywords)
    /\ result = "user_input_error"

\* C16: a missing or empty diagnostic, and a diagnostic that contains none
\* of the keywords, is classified unknown; the classification raises
\* nothing and changes no field of the session state.
C16_NoKeywordIsUnknown ==
    last_op = "classify_error_type" =>
        /\ state = pre_state
        /\ raised = NoExc
        /\ (\/ pre_state.last_error \in {None, <<>>}
            \/ ~AnyKeyword(Lower(pre_state.last_error),
                           UserInputKeywords \cup LlmKeywords
                               \cup ValidationKeywords))
           => result = "unknown"

\* "Question generation failed": a text without any keyword
C16_Witness ==
    /\ last_op = "classify_error_type"
    /\ Len(pre_state.last_error) > 1
    /\ ~AnyKeyword(Lower(pre_state.last_error),
                   UserInputKeywords \cup LlmKeywords
                       \cup ValidationKeywords)
    /\ result = "unknown"
    /\ state = pre_state

\* C17: route_error_recovery retries only below the ceiling of
\* the error kind: user-input and unknown errors are never retried, an LLM
\* error is retried, to the retry node of the phase, exactly at
\* retry_count 0..2, and a network error (a network or timeout keyword and
\* no llm or api keyword) is not retried once retry_count has reached 2.
C17_RetryBelowKindCeiling ==
    last_op = "route_error_recovery" =>
        LET kind == classify_error_type(pre_state.last_error)
            error_lower == Lower(pre_state.last_error)
            retried == result \notin {"end", "clarification_handler"}
            network ==
                /\ kind = "llm_error"
                /\ ~AnyKeyword(error_lower,
                               {<<"l", "l", "m">>, <<"a", "p", "i">>})
        IN  /\ kind \in {"user_input_error", "unknown"} => ~retried
            /\ (kind = "llm_error" /\ ~network) =>
                   /\ retried <=> pre_state.retry_count < 3
                   /\ retried =>
                        result =
                          get_retry_node_for_phase(pre_state.current_phase)
            /\ (network /\ pre_state.retry_count >= 2) => ~retried

C13_CompletedRoutesToCompletionHandler ==
    (/\ last_op \in {"route_after_scoring", "route_after_score_generation"}
     /\ pre_state.quiz_completed)
    =>
    /\ result = "quiz_completion_handler"
    /\ raised = NoExc
    /\ last_op = "route_after_scoring" =>
         /\ state.current_phase = "quiz_complete"
         /\ ~state.quiz_active

\* the scenario: question_answered, 10 of 10 questions answered
C13_Witness ==
    /\ last_op = "route_after_scoring"
    /\ pre_state.quiz_completed
    /\ pre_state.current_phase = "question_answered"
    /\ pre_state.quiz_active
    /\ pre_state.total_questions_answered = 10
    /\ pre_state.max_questions = 10
    /\ result = "quiz_completion_handler"
    /\ state.current_phase = "quiz_complete"
    /\ ~state.quiz_active

\* C14: when quiz_completed is false, route_after_scoring returns
\* quiz_generator with current_question_index incremented by one, for every
\* quiz type and every value of total_questions_answered and
\* max_questions.
C14_NotCompletedRoutesToQuizGenerator ==
    (/\ last_op = "route_after_scoring"
     /\ ~pre_state.quiz_completed)
    =>
    /\ result = "quiz_generator"
    /\ state.current_question_index = pre_state.current_question_index + 1

-----------------------------------------------------------------------------
(* Properties of the workflow.  Under SpecFlow last_op names the node or   *)
(* the router that ran last, pre_state the session state it ran on and     *)
(* state the session state it left.                                        *)

C20_CorrectAtMostAnswered ==
    state.correct_answers_count <= state.total_questions_answered

\* a correct answer has been scored when every answer before was correct,
\* and a reset has zeroed counters that were not zero
C20_Witness ==
    \/ /\ last_op = "score_generator"
       /\ pre_state.correct_answers_count = pre_state.total_questions_answered
       /\ state.correct_answers_count = pre_state.correct_answers_count + 1
       /\ state.total_questions_answered = state.correct_answers_count
       /\ pre_state.total_questions_answered > 0
    \/ /\ last_op = "session_manager"
       /\ pre_state.correct_answers_count > 0
       /\ state.total_questions_answered = 0

C22_RetryResetOnAdvance ==
    (\/ /\ last_op = "route_after_topic_validation"
        /\ result = "quiz_generator"
     \/ /\ last_op = "route_after_question_generation"
        /\ result = "query_analyzer"
        /\ Truthy(state.current_question)
     \/ /\ last_op = "route_after_answer_validation"
        /\ result = "score_generator")
    => state.retry_count = 0

\* C23: in every state the workflow reaches through failing steps and
\* routing decisions, retry_count is at most the session-wide ceiling 5.
\* (The nodes catch every exception themselves, so the increment in the
\* except branch of _wrap_node never runs in the compiled graph, and the
\* routers increment retry_count only while it is below 3.)
C23_RetryCountAtMostFive ==
    state.retry_count <= 5

\* a generation has failed at the routers' ceiling of 3 retries and the
\* router has left retry_count alone
C23_Witness ==
    /\ last_op = "route_after_question_generation"
    /\ result # "query_analyzer"
    /\ pre_state.retry_count = 3
    /\ state.retry_count = 3

\* C25: route_conversation itself writes no field of the session state:
\* with intent exit or new_quiz, or with a phase that is none of the five,
\* the state after the call equals the state before, and otherwise the
\* state after the call is the one the phase router of the current phase
\* leaves (only route_from_quiz_active writes, the other four leave the
\* state as it was).
C25_MainRouterWritesNothing ==
    last_op = "route_conversation"
    => IF \/ pre_state.user_intent \in {"exit", "new_quiz"}
          \/ pre_state.current_phase \notin Phases
       THEN state = pre_state
       ELSE IF pre_state.current_phase = "quiz_active"
       THEN state = route_from_quiz_active(pre_state).st
       ELSE state = pre_state

\* a new quiz was asked for in the middle of a quiz: the router returned
\* topic_validator and left the state as it was
C25_Witness ==
    /\ last_op = "route_conversation"
    /\ pre_state.user_intent = "new_quiz"
    /\ pre_state.current_phase = "quiz_active"
    /\ Truthy(pre_state.current_question)
    /\ result = "topic_validator"
    /\ state = pre_state

\* C26: after route_error_recovery has classified a diagnostic held in
\* last_error, last_error is empty.
C26_ErrorClearedByClassification ==
    (/\ last_op = "route_error_recovery"
     /\ Truthy(pre_state.last_error))
    => ~Truthy(state.last_error)

\* C28: the metrics recorder is purely additive and never affects
\* routing.  In every step no count decreases; a decision of
\* main_route_conversation adds one to the count of its (phase, target)
\* pair and to total_routes and leaves every other count and the error
\* counts as they were; record_error_route adds one to the count of its
\* error kind and leaves every other count as it was; and the target
\* main_route_conversation returns is the one computed from the session
\* state alone, whatever the recorder holds.  (The counts start empty, so
\* each count is the number of calls made for it.)
C28_MetricsAdditive ==
    [][LET old == routing_metrics
           new == routing_metrics'
           key == <<state'.current_phase, result'>>
       IN  /\ \A k \in DOMAIN old.routing_counts :
                 Count(new.routing_counts, k) >= old.routing_counts[k]
           /\ \A k \in DOMAIN old.error_routes :
                 Count(new.error_routes, k) >= old.error_routes[k]
           /\ last_op' = "main_route_conversation"
              => /\ result' = main_route_conversation(state).ret
                 /\ Count(new.routing_counts, key)
                      = Count(old.routing_counts, key) + 1
                 /\ \A k \in DOMAIN new.routing_counts \ {key} :
                       new.routing_counts[k] = Count(old.routing_counts, k)
                 /\ total_routes(new) = total_routes(old) + 1
                 /\ new.phase_transitions[key[1]][key[2]]
                      = new.routing_counts[key]
                 /\ new.error_routes = old.error_routes
           /\ last_op' = "record_error_route"
              => /\ Count(new.error_routes, result')
                      = Count(old.error_routes, result') + 1
                 /\ \A k \in DOMAIN new.error_routes \ {result'} :
                       new.error_routes[k] = Count(old.error_routes, k)
                 /\ new.routing_counts = old.routing_counts
                 /\ new.phase_transitions = old.phase_transitions
                 /\ state' = state
      ]_vars

\* the same route has been recorded twice and an error route once
C28_Witness ==
    /\ last_op = "main_route_conversation"
    /\ routing_metrics.error_routes # <<>>
    /\ \E k \in DOMAIN routing_metrics.routing_counts :
          /\ routing_metrics.routing_counts[k] = 2
          /\ k = <<state.current_phase, result>>

\* C29: each time validate_routing_result has replaced the proposed
\* target by the query_analyzer fallback, the metrics recorder holds a
\* count of that rejection: a count besides those of the routes taken,
\* which record_routing keeps per (phase, returned target).
C29_RejectionRecorded ==
    (/\ last_op = "main_route_conversation"
     /\ LET r == route_conversation(pre_state)
        IN  /\ r.exc = NoExc
            /\ ~validate_routing_decision(r.st, r.ret))
    => SumCounts(routing_metrics.error_routes) > 0

\* C36: for each of the five phases and every intent and field values, the
\* target route_conversation returns is in the transition table entry of
\* the state's phase (or is query_analyzer, which the validator's
\* membership check always lets through).
C36_RouterRespectsTransitionTable ==
    (/\ last_op = "route_conversation"
     /\ pre_state.current_phase \in Phases)
    => result \in valid_next_nodes(pre_state.current_phase)
                    \cup {"query_analyzer"}

-----------------------------------------------------------------------------
(* Properties of the session state's own operations.                       *)

\* C24: after reset_for_new_quiz, session_id and conversation_history
\* equal their values before, current_phase is topic_selection, and the
\* quiz-progress fields (topic, topic_validated, the question fields, the
\* answers, the scores and counters, quiz_active, quiz_completed,
\* last_error, retry_count, quiz_metadata) are at their empty or zero
\* values.
C24_ResetZeroesQuizProgress ==
    last_op = "reset_for_new_quiz"
    => /\ state.session_id = pre_state.session_id
       /\ state.conversation_history = pre_state.conversation_history
       /\ state.current_phase = "topic_selection"
       /\ state.topic = None
       /\ ~state.topic_validated
       /\ state.current_question_index = 0
       /\ state.current_question = None
       /\ state.question_type = None
       /\ state.question_options = None
       /\ state.correct_answer = None
       /\ state.user_answers = <<>>
       /\ state.current_answer = None
       /\ state.answer_is_correct = NoBool
       /\ state.answer_feedback = None
       /\ state.total_score = 0
       /\ state.total_questions_answered = 0
       /\ state.correct_answers_count = 0
       /\ state.quiz_completion_percentage = 0
       /\ ~state.quiz_active
       /\ ~state.quiz_completed
       /\ state.last_error = None
       /\ state.retry_count = 0
       /\ state.quiz_metadata = <<>>

\* a session with a log, answered questions, a pending error and retries
\* has been reset
C24_Witness ==
    /\ last_op = "reset_for_new_quiz"
    /\ pre_state.conversation_history # <<>>
    /\ pre_state.total_questions_answered > 0
    /\ pre_state.correct_answers_count > 0
    /\ pre_state.current_question # None
    /\ pre_state.last_error # None
    /\ pre_state.retry_count > 0
    /\ pre_state.quiz_metadata # <<>>
    /\ pre_state.quiz_completed

\* C37: a wrapped node lets no exception escape.  When the node function
\* raised, the wrapper returns the state with last_error set to a message
\* that contains the error text, retry_count increased by exactly one and
\* every other field as it was; when the node function returned, the
\* wrapper returns the node's state: last_error and retry_count are what
\* the node left (no node writes retry_count).
C37_WrappedNodeCatches ==
    last_op = "wrapped_node"
    => /\ raised = NoExc
       /\ IF result = Raised
          THEN /\ \E e \in ExceptionTexts
                           \cup {<<"N", "o", "d", "e", " ", "f", "a", "i",
                                   "l", "e", "d">>} :
                     /\ Contains(state.last_error, e)
                     /\ state.last_error # e
               /\ state.retry_count = pre_state.retry_count + 1
               /\ [state EXCEPT !.last_error = None, !.retry_count = 0]
                    = [pre_state EXCEPT !.last_error = None,
                                        !.retry_count = 0]
          ELSE /\ state.retry_count = pre_state.retry_count
               /\ state \in {score_generator(pre_state)}
                             \cup {query_analyzer(pre_state, out) :
                                     out \in Outcomes.query_analyzer}

\* a node raised on a session that already held an error and a retry
C37_Witness ==
    /\ last_op = "wrapped_node"
    /\ result = Raised
    /\ Truthy(pre_state.last_error)
    /\ pre_state.retry_count = 1
    /\ state.retry_count = 2

-----------------------------------------------------------------------------
(* Properties of the workflow, continued.                                  *)

C30_TargetInEdgeMap ==
    LET node == [route_after_query_analysis |-> "query_analyzer",
                 route_after_topic_validation |-> "topic_validator",
                 route_after_question_generation |-> "quiz_generator",
                 route_after_answer_validation |-> "answer_validator",
                 route_after_scoring |-> "score_generator"]
    IN  last_op \in DOMAIN node => result \in edges[node[last_op]]

\* C31: every invocation of the graph for one input reaches END: no
\* invocation is stopped by the graph's recursion limit while it cycles
\* between query_analyzer and clarification_handler on an emptied input.
C31_InvocationReachesEnd ==
    ~(/\ last_op = "process_input"
      /\ workflow.at = "idle"
      /\ workflow.turns > 0
      /\ pre_state.user_input = <<>>
      /\ pre_state.user_intent = "clarification")

\* C32: across one score_generator step and the post-scoring routing
\* decision that follows it on a quiz that is not completed and goes on
\* to the next question, current_question_index increases by exactly 1
\* (pre_state is the state score_generator ran on).
C32_IndexAdvancesByOne ==
    [][(/\ last_op = "score_generator"
        /\ last_op' = "route_after_scoring"
        /\ ~state.quiz_completed
        /\ result' = "quiz_generator")
       => state'.current_question_index
            = pre_state.current_question_index + 1]_vars

\* C33: on a state with topic_validated false and retry_count >= 3,
\* route_after_topic_validation returns "end", the target
\* route_from_topic_validation returns on that state.
C33_TopicFailureAtCeilingEnds ==
    (/\ last_op = "route_after_topic_validation"
     /\ ~pre_state.topic_validated
     /\ pre_state.retry_count >= 3)
    => /\ result = "end"
       /\ result = route_from_topic_validation(pre_state).ret

\* C34: a failed topic validation counts towards the retry ceiling: across
\* one topic_validator step that rejects the topic and the routing
\* decision that follows it, retry_count grows, so that persistent failure
\* reaches retry_count >= 3 (pre_state is the state topic_validator ran
\* on).
C34_TopicFailureCountsRetry ==
    [][(/\ last_op = "topic_validator"
        /\ last_op' = "route_after_topic_validation"
        /\ ~state.topic_validated
        /\ result' = "clarification_handler")
       => state'.retry_count > pre_state.retry_count]_vars

C38_ActiveFlagImpliesTopicValidated ==
    state.quiz_active => state.topic_validated

C40_GenerationRetriesBounded ==
    last_op = "route_after_question_generation"
    => /\ result = "quiz_generator"
          => /\ pre_state.retry_count < 3
             /\ state.retry_count = pre_state.retry_count + 1
       /\ (/\ pre_state.retry_count >= 3
           /\ ~(Truthy(pre_state.current_question)
                /\ Truthy(pre_state.correct_answer)))
          => result = IF pre_state.total_questions_answered > 0
                      THEN "quiz_completion_handler"
                      ELSE "topic_selection_fallback"

\* after the third retry the generation has failed again on a quiz with an
\* answered question, and the router has ended the quiz
C40_Witness ==
    /\ last_op = "route_after_question_generation"
    /\ pre_state.retry_count = 3
    /\ pre_state.total_questions_answered > 0
    /\ result = "quiz_completion_handler"

====
